---------------------------- MODULE Spec2Model ----------------------------
(***************************************************************************)
(* A model of weather_util_rust: the forecast aggregation of               *)
(* src/weather_forecast.rs (get_high_low, get_forecast), the Angle value   *)
(* type of src/angle.rs, and the validated quantity types (Humidity,       *)
(* Distance, Pressure, Speed, Precipitation, Temperature, TimeZone,        *)
(* Latitude, Longitude, Direction).                                        *)
(*                                                                         *)
(* Conventions                                                             *)
(*   Option<T>     a sequence of length <= 1: None is <<>>, Some(x) <<x>>. *)
(*   OffsetDateTime a unix timestamp in seconds; Date a day number         *)
(*                 (days since 1970-01-01).                                *)
(*   Temperature   Kelvin, Precipitation millimetres, as integers of a     *)
(*                 fixed unit (only compared and added).                   *)
(***************************************************************************)
EXTENDS Integers, Sequences, FiniteSets, TLC

VARIABLES
    list,        \* WeatherForecast.list : Vec<ForecastEntry>
    timezone,    \* WeatherForecast.city.timezone : TimeZone (seconds)
    high_low,    \* the map last returned by get_high_low
    forecast,    \* the Vec last returned by get_forecast
    fpc,         \* "build" | "high_low" | "forecast": what was called last
    angle,       \* the Angle last constructed: [degree, minute, second, subsec]
    origin,      \* how it was constructed: [ctor, arg]
    astatus,     \* "none" before a constructor ran, then "ok", or "panic"
                 \* when the constructor panicked
    acmp,        \* None, or Some of two further Angles and the outcomes of
                 \* == and hash on them and `angle`
    qa,          \* the quantity last constructed: [type, ctor, arg, res]
    qb,          \* a second quantity of the same type
    qop,         \* the outcome of the binary operation on qa and qb
    qpc,         \* "none" | "one" | "two" | "done": how far the quantity
                 \* machine has got
    data,        \* a WeatherData record
    conditions,  \* None, or Some of what get_current_conditions returned
    opts,        \* a WeatherOpts
    config,      \* the Config
    location,    \* None, or Some of what get_location returned
    run,         \* the call of run_opts: its position, its two requests
                 \* and its result
    env,         \* the environment of the process: key -> Option<value>
    mutex,       \* TEST_MUTEX: None, or Some of the thread that holds it
    threads      \* per thread: its position and the envs of its TestEnvs

fvars == <<list, timezone, high_low, forecast, fpc>>

avars == <<angle, origin, astatus, acmp>>

qvars == <<qa, qb, qop, qpc>>

wvars == <<data, conditions>>

ovars == <<opts, config, location, run>>

evars == <<env, mutex, threads>>

vars == <<list, timezone, high_low, forecast, fpc, angle, origin, astatus, acmp,
          qa, qb, qop, qpc, data, conditions, opts, config, location, run,
          env, mutex, threads>>

---------------------------------------------------------------------------
(* Bounds and input domains of the forecast model *)

MaxSamples == 3

SecondsPerDay == 86400

None == <<>>

Some(x) == <<x>>

\* 23:00 of day 0 and 01:00 of day 1 (UTC)
DtValues == {82800, 90000}

\* city offsets: two hours west, UTC, two hours east
TzValues == {-7200, 0, 7200}

\* (temp_max, temp_min) pairs of the aggregation example of the specification
MainValues ==
    { [temp_max |-> 10, temp_min |-> 2],
      [temp_max |-> 15, temp_min |-> 5],
      [temp_max |-> 12, temp_min |-> 1] }

\* rain / snow / weather of a sample: no field and no icon; a field with no
\* 3-hour amount; fields with amounts
SkyValues ==
    { [rain |-> None, snow |-> None, weather |-> <<>>],
      [rain |-> Some([three_hour |-> None]),
       snow |-> Some([three_hour |-> Some(2)]),
       weather |-> <<[icon |-> "13d"]>>],
      [rain |-> Some([three_hour |-> Some(1)]),
       snow |-> Some([three_hour |-> None]),
       weather |-> <<[icon |-> "10d"], [icon |-> "04n"]>>] }

ForecastEntry(dt, main, sky) ==
    [dt |-> dt, main |-> main, weather |-> sky.weather,
     rain |-> sky.rain, snow |-> sky.snow]

ForecastEntries ==
    { ForecastEntry(dt, m, s) : dt \in DtValues, m \in MainValues, s \in SkyValues }

---------------------------------------------------------------------------
(* Precipitation (src/precipitation.rs) *)

\* Precipitation::default(): derive(Default) on Precipitation(f64)
PrecipitationDefault == 0

PrecipitationAdd_KeepsFirst(a, b) == a

\* derive(Add): the sum of the two inner values, not re-validated
PrecipitationAdd(a, b) == a + b

\* Option<Precipitation>::unwrap_or_default
UnwrapOrDefault(opt) == IF opt = None THEN PrecipitationDefault ELSE opt[1]

---------------------------------------------------------------------------
(* WeatherForecast::get_high_low (src/weather_forecast.rs) *)

\* the UTC date, the offset of the city dropped
LocalDate_Utc(dt, fo) == dt \div SecondsPerDay

\* entry.dt.to_offset(fo).date(): the calendar date of the instant shifted
\* by the offset (floor division: dates before the epoch are negative days)
LocalDate(dt, fo) == (dt + fo) \div SecondsPerDay

\* entry.weather.iter().map(|w| w.icon.clone()).collect::<BTreeSet<_>>()
IconSet(weather) == { weather[i].icon : i \in 1..Len(weather) }

\* BTreeMap::insert
MapInsert(hmap, key, value) ==
    [k \in (DOMAIN hmap) \cup {key} |-> IF k = key THEN value ELSE hmap[k]]

\* `if high > *h { high } else { *h }`
HigherOf(high, h) == IF high > h THEN high ELSE h

\* the comparison of the low the wrong way round
LowerOf_Reversed(low, l) == IF low > l THEN low ELSE l

\* `if low < *l { low } else { *l }`
LowerOf(low, l) == IF low < l THEN low ELSE l

\* the closure folded over self.list: one sample into the map
FoldEntry(hmap, entry, fo) ==
    LET date == LocalDate(entry.dt, fo)
        high == entry.main.temp_max
        low  == entry.main.temp_min
        rain == IF entry.rain # None
                THEN UnwrapOrDefault(entry.rain[1].three_hour)
                ELSE PrecipitationDefault
        snow == IF entry.snow # None
                THEN UnwrapOrDefault(entry.snow[1].three_hour)
                ELSE PrecipitationDefault
        icons == IconSet(entry.weather)
    IN  IF date \in DOMAIN hmap
        THEN LET h == hmap[date][1]
                 l == hmap[date][2]
                 r == hmap[date][3]
                 s == hmap[date][4]
                 i == hmap[date][5]
                 high2 == HigherOf(high, h)
                 low2  == LowerOf(low, l)
                 rain2 == PrecipitationAdd(r, rain)
                 snow2 == PrecipitationAdd(s, snow)
                 icons2 == icons \cup i
             IN  IF <<high2, low2>> # <<h, l>>
                 THEN MapInsert(hmap, date, <<high2, low2, rain2, snow2, icons2>>)
                 ELSE hmap
        ELSE MapInsert(hmap, date, <<high, low, rain, snow, icons>>)

RECURSIVE Fold(_, _, _, _)
Fold(hmap, entries, i, fo) ==
    IF i > Len(entries) THEN hmap
    ELSE Fold(FoldEntry(hmap, entries[i], fo), entries, i + 1, fo)

\* From<TimeZone> for UtcOffset: the offset of z.0 whole seconds
UtcOffsetFrom(z) == z

EmptyMap == [k \in {} |-> <<>>]

get_high_low(entries, tz) == Fold(EmptyMap, entries, 1, UtcOffsetFrom(tz))

---------------------------------------------------------------------------
(* WeatherForecast::get_forecast *)

Min(S) == CHOOSE x \in S : \A y \in S : x <= y

\* the keys latest first
RECURSIVE MapKeys_Descending(_)
MapKeys_Descending(S) ==
    IF S = {} THEN <<>>
    ELSE LET m == Min(S) IN MapKeys_Descending(S \ {m}) \o <<m>>

\* BTreeMap::into_iter: the keys in ascending order
RECURSIVE MapKeys(_)
MapKeys(S) ==
    IF S = {} THEN <<>>
    ELSE LET m == Min(S) IN <<m>> \o MapKeys(S \ {m})

ForecastHeader == [text |-> "\nForecast:\n"]

\* one rendered day: "\t{d} {high:25} {low:25} {rain_snow:25}\n"
ForecastLine(d, v) ==
    LET rain_part == IF v[3] > 0 THEN <<[label |-> "Rain", amount |-> v[3]]>> ELSE <<>>
        snow_part == IF v[4] > 0 THEN <<[label |-> "Snow", amount |-> v[4]]>> ELSE <<>>
    IN  [text |-> "day", date |-> d, high |-> v[1], low |-> v[2],
         rain_snow |-> rain_part \o snow_part]

get_forecast(entries, tz) ==
    LET hmap == get_high_low(entries, tz)
        keys == MapKeys(DOMAIN hmap)
    IN  <<ForecastHeader>> \o [n \in 1..Len(keys) |-> ForecastLine(keys[n], hmap[keys[n]])]

---------------------------------------------------------------------------
(* The forecast state machine *)

\* no quantity has been constructed
NoQuantity == [type |-> "none", ctor |-> "none", arg |-> <<>>,
               res |-> [ok |-> FALSE, value |-> <<>>, error |-> <<>>]]

QuantityIdle ==
    /\ qa = NoQuantity
    /\ qb = NoQuantity
    /\ qop = <<>>
    /\ qpc = "none"

\* WeatherData::default(): no country, no conditions, no wind direction, no
\* rain and no snow; the quantities are their zero defaults and the
\* instants default_datetime()
WeatherDataDefault ==
    [name |-> "", country |-> <<>>,
     lat |-> [k |-> "fin", n |-> 0, d |-> 1], lon |-> [k |-> "fin", n |-> 0, d |-> 1],
     dt |-> 0, temp |-> [k |-> "fin", n |-> 0, d |-> 1], humidity |-> 0,
     wind_speed |-> [k |-> "fin", n |-> 0, d |-> 1], wind_deg |-> <<>>,
     weather |-> <<>>, sunrise |-> 0, sunset |-> 0,
     rain |-> <<>>, snow |-> <<>>, timezone |-> 0]

WeatherDataIdle ==
    /\ data = WeatherDataDefault
    /\ conditions = <<>>

\* WeatherOpts::default() and ConfigInner::default(): every option None
WeatherOptsDefault ==
    [zipcode |-> <<>>, country_code |-> <<>>, city_name |-> <<>>,
     lat |-> <<>>, lon |-> <<>>, api_key |-> <<>>, forecast |-> FALSE]

ConfigDefault ==
    [zipcode |-> <<>>, country_code |-> <<>>, city_name |-> <<>>,
     lat |-> <<>>, lon |-> <<>>, api_key |-> <<>>]

\* run_opts has not been called
RunIdle ==
    [pc |-> "idle", applied |-> 0, data |-> "none", forecast |-> "none",
     days |-> 0, result |-> <<>>]

WeatherOptsIdle ==
    /\ opts = WeatherOptsDefault
    /\ config = ConfigDefault
    /\ location = <<>>
    /\ run = RunIdle

\* no variable is set, no thread has started
TestEnvsIdle ==
    /\ env = <<>>
    /\ mutex = <<>>
    /\ threads = <<>>

ForecastInit ==
    /\ QuantityIdle
    /\ WeatherDataIdle /\ WeatherOptsIdle /\ TestEnvsIdle
    /\ angle = [degree |-> 0, minute |-> 0, second |-> 0,
                subsec |-> [k |-> "fin", n |-> 0, d |-> 1]]
    /\ origin = [ctor |-> "none", arg |-> <<>>]
    /\ astatus = "none"
    /\ acmp = <<>>
    /\ list = <<>>
    /\ timezone \in TzValues
    /\ high_low = EmptyMap
    /\ forecast = <<>>
    /\ fpc = "build"

\* a sample is appended to the (public) list of the record
AddEntry(e) ==
    /\ fpc = "build"
    /\ Len(list) < MaxSamples
    /\ list' = Append(list, e)
    /\ UNCHANGED <<timezone, high_low, forecast, fpc>>
    /\ UNCHANGED <<avars, qvars, wvars, ovars, evars>>

GetHighLow ==
    /\ fpc = "build"
    /\ high_low' = get_high_low(list, timezone)
    /\ fpc' = "high_low"
    /\ UNCHANGED <<list, timezone, forecast>>
    /\ UNCHANGED <<avars, qvars, wvars, ovars, evars>>

GetForecast ==
    /\ fpc \in {"build", "high_low"}
    /\ forecast' = get_forecast(list, timezone)
    /\ fpc' = "forecast"
    /\ UNCHANGED <<list, timezone, high_low>>
    /\ UNCHANGED <<avars, qvars, wvars, ovars, evars>>

ForecastNext ==
    \/ \E e \in ForecastEntries : AddEntry(e)
    \/ GetHighLow
    \/ GetForecast

SpecForecast == ForecastInit /\ [][ForecastNext]_vars

---------------------------------------------------------------------------
(* Floating point numbers of the Angle model                               *)
(*                                                                         *)
(* An f64 is the exact fraction [k |-> "fin", n |-> n, d |-> d] (n / d in  *)
(* lowest terms, d > 0), or NaN, or an infinity Inf(+-1).  The inputs are  *)
(* whole numbers of SecUnits-ths of an arc second, on which the f64        *)
(* arithmetic of from_deg and deg is taken as exact.  An f32 holds fewer   *)
(* digits than an f64: the model's f32 keeps the multiples of              *)
(* 1 / F32PerSec only (F64PerF32 inputs lie between two of them), and a    *)
(* cast to f32 rounds to the nearest one (ties to even).                   *)

F32PerSec == 2

F64PerF32 == 4

SecUnits == F32PerSec * F64PerF32

Abs(x) == IF x >= 0 THEN x ELSE -x

RECURSIVE GCD(_, _)
GCD(a, b) == IF b = 0 THEN a ELSE GCD(b, a % b)

LCM(a, b) == (a \div GCD(a, b)) * b

\* the fraction n / d (d > 0) in lowest terms
Fin(n, d) ==
    LET g == GCD(Abs(n), d)
    IN  [k |-> "fin", n |-> n \div g, d |-> d \div g]

NaN == [k |-> "nan", n |-> 0, d |-> 1]

Inf(sign) == [k |-> "inf", n |-> sign, d |-> 1]

\* the remainder of Rust's `%` on integers and floats: the sign of the dividend
RemTrunc(a, b) == IF a >= 0 THEN a % b ELSE -((-a) % b)

\* f64::abs
FAbs(x) ==
    CASE x.k = "fin" -> Fin(Abs(x.n), x.d)
      [] x.k = "inf" -> Inf(1)
      [] OTHER -> NaN

\* `x >= 0.0`: false of NaN
FGeZero(x) ==
    CASE x.k = "fin" -> x.n >= 0
      [] x.k = "inf" -> x.n > 0
      [] OTHER -> FALSE

\* `x % m` for a whole m > 0: NaN of an infinite or NaN x
FRem(x, m) == IF x.k = "fin" THEN Fin(RemTrunc(x.n, m * x.d), x.d) ELSE NaN

\* f64::floor
FFloor(x) == IF x.k = "fin" THEN Fin(x.n \div x.d, 1) ELSE x

\* `x * c` for a whole c > 0
FMul(x, c) ==
    IF x.k = "fin"
    THEN LET g == GCD(c, x.d) IN Fin(x.n * (c \div g), x.d \div g)
    ELSE x

\* `x / c` for a whole c > 0
FDiv(x, c) ==
    IF x.k = "fin"
    THEN LET g == GCD(Abs(x.n), c) IN Fin(x.n \div g, x.d * (c \div g))
    ELSE x

\* `x + y` and `x - y`: an infinity absorbs a finite operand, opposite
\* infinities and NaN give NaN
FAdd(x, y) ==
    CASE x.k = "fin" /\ y.k = "fin" ->
            LET l == LCM(x.d, y.d)
            IN  Fin(x.n * (l \div x.d) + y.n * (l \div y.d), l)
      [] x.k = "nan" \/ y.k = "nan" -> NaN
      [] x.k = "inf" /\ y.k = "inf" -> IF x.n = y.n THEN x ELSE NaN
      [] x.k = "inf" -> x
      [] OTHER -> y

FSub(x, y) ==
    CASE y.k = "fin" -> FAdd(x, Fin(-y.n, y.d))
      [] y.k = "inf" -> FAdd(x, Inf(-y.n))
      [] OTHER -> NaN

\* `x < 0.0`: false of NaN
FLtZero(x) ==
    CASE x.k = "fin" -> x.n < 0
      [] x.k = "inf" -> x.n < 0
      [] OTHER -> FALSE

\* `x >= c` and `x <= c` for a whole c: false of NaN
FGe(x, c) ==
    CASE x.k = "fin" -> x.n >= c * x.d
      [] x.k = "inf" -> x.n > 0
      [] OTHER -> FALSE

FLe(x, c) ==
    CASE x.k = "fin" -> x.n <= c * x.d
      [] x.k = "inf" -> x.n < 0
      [] OTHER -> FALSE

\* `x * (num / den)` for a positive constant num / den
FScale(x, num, den) ==
    IF x.k = "fin"
    THEN LET g1 == GCD(Abs(x.n), den)
             g2 == GCD(num, x.d)
         IN  Fin((x.n \div g1) * (num \div g2), (x.d \div g2) * (den \div g1))
    ELSE x

\* an integer as a float
FInt(i) == Fin(i, 1)

I16Min == -32768

I16Max == 32767

U8Max == 255

\* `x as i16`, `x as u8`: towards zero, saturating, 0 of NaN
CastInt(x, lo, hi) ==
    CASE x.k = "nan" -> 0
      [] x.k = "inf" -> IF x.n > 0 THEN hi ELSE lo
      [] OTHER ->
            LET t == IF x.n >= 0 THEN x.n \div x.d ELSE -((-x.n) \div x.d)
            IN  IF t < lo THEN lo ELSE IF t > hi THEN hi ELSE t

\* `x as f32`: the nearest multiple of 1 / F32PerSec, ties to even
CastF32(x) ==
    IF x.k # "fin" THEN x
    ELSE LET num == x.n * F32PerSec
             q == num \div x.d
             r == num % x.d
             up == \/ 2 * r > x.d
                   \/ (2 * r = x.d /\ q % 2 = 1)
         IN  Fin(IF up THEN q + 1 ELSE q, F32PerSec)

---------------------------------------------------------------------------
(* Angle (src/angle.rs) *)

AngleOf(degree, minute, second, subsec) ==
    [degree |-> degree, minute |-> minute, second |-> second, subsec |-> subsec]

\* derive(Default)
AngleDefault == AngleOf(0, 0, 0, FInt(0))

\* Angle::sign
Sign(a) == IF a.degree >= 0 THEN 1 ELSE -1

\* i16::abs: of i16::MIN it panics with overflow checks and wraps to
\* i16::MIN without them
I16Abs(x, overflow_checks) ==
    IF x = I16Min
    THEN [panicked |-> overflow_checks, v |-> I16Min]
    ELSE [panicked |-> FALSE, v |-> Abs(x)]

\* the sign of the degree dropped
SignedDegree_Unsigned(sign, abs_degree) == abs_degree

\* `let degree = sign * abs_degree;`
SignedDegree(sign, abs_degree) == sign * abs_degree

\* `let minute = minute % 60;` and `let second = second % 60;`
Mod60(x) == x % 60

\* Angle::from_deg_min_sec_subsec
from_deg_min_sec_subsec(degree, minute, second, subsec, overflow_checks) ==
    LET sign == IF degree >= 0 THEN 1 ELSE -1
        abs == I16Abs(degree, overflow_checks)
        abs_degree == RemTrunc(abs.v, 360)
    IN  [panicked |-> abs.panicked,
         angle |-> AngleOf(SignedDegree(sign, abs_degree), Mod60(minute), Mod60(second),
                           CastF32(FRem(FAbs(subsec), 1)))]

\* `let degree = sign * abs_deg as i16;`
FromDegDegree(sign, abs_deg) == sign * CastInt(abs_deg, I16Min, I16Max)

\* Angle::from_deg
from_deg(deg) ==
    LET sign == IF FGeZero(deg) THEN 1 ELSE -1
        abs_deg == FRem(FAbs(deg), 360)
        abs_degree == FFloor(abs_deg)
        minute == FFloor(FRem(FSub(FMul(abs_deg, 60), FMul(abs_degree, 60)), 60))
        sec == FRem(FSub(FSub(FMul(abs_deg, 3600), FMul(minute, 60)),
                         FMul(abs_degree, 3600)), 60)
        second == CastInt(sec, 0, U8Max)
    IN  AngleOf(FromDegDegree(sign, abs_deg), CastInt(minute, 0, U8Max), second,
                CastF32(FSub(CastF32(sec), CastF32(FInt(second)))))

\* f64::to_degrees of a value of radians, which the model holds as the whole
\* number of arc minutes it is (rad = arcmin * pi / 10800)
to_degrees(rad) == FDiv(rad, 60)

\* Angle::from_radian
from_radian(rad) == from_deg(to_degrees(rad))

\* Angle::deg
deg(a) ==
    LET magnitude == FAdd(FAdd(FAdd(FInt(Abs(a.degree)), FDiv(FInt(a.minute), 60)),
                               FDiv(FInt(a.second), 3600)),
                          FDiv(a.subsec, 3600))
    IN  IF magnitude.k = "fin" THEN Fin(Sign(a) * magnitude.n, magnitude.d) ELSE magnitude

\* Angle::deg_min_sec_subsec
deg_min_sec_subsec(a) == <<a.degree, a.minute, a.second, a.subsec>>

\* impl PartialEq for Angle
AngleEq(a, b) ==
    /\ RemTrunc(a.degree - b.degree, 360) = 0
    /\ a.minute = b.minute
    /\ a.second = b.second

\* impl Hash for Angle: the values fed to the hasher
AngleHash(a) == <<a.degree, a.minute, a.second>>

\* <f64 as FromStr>::from_str on the strings of the model: [ok, value]
ParseF64(s) ==
    CASE s = "42.0" -> [ok |-> TRUE, value |-> FInt(42)]
      [] s = "-0.5" -> [ok |-> TRUE, value |-> Fin(-1, 2)]
      [] s = "450" -> [ok |-> TRUE, value |-> FInt(450)]
      [] s = "NaN" -> [ok |-> TRUE, value |-> NaN]
      [] s = "inf" -> [ok |-> TRUE, value |-> Inf(1)]
      [] s = "-inf" -> [ok |-> TRUE, value |-> Inf(-1)]
      [] OTHER -> [ok |-> FALSE, value |-> NaN]

---------------------------------------------------------------------------
(* Inputs of the Angle model *)

MaxTurns == 2

\* decimal degrees: sign * (turns * 360 + whole degrees, minutes, seconds and
\* SecUnits-ths of a second), and the values that are no numbers
DegInputs ==
    { Fin(sg * ((((t * 360 + w) * 60 + m) * 60 + s) * SecUnits + u), 3600 * SecUnits) :
        sg \in {-1, 1}, t \in 0..MaxTurns, w \in {0, 1, 90, 359},
        m \in {0, 18, 59}, s \in {0, 59}, u \in 0..(SecUnits - 1) }
    \cup {NaN, Inf(1), Inf(-1)}

\* radians, as whole arc minutes
RadInputs ==
    { FInt(sg * (t * 360 * 60 + m)) :
        sg \in {-1, 1}, t \in 0..MaxTurns, m \in {0, 30, 5400, 21599} }
    \cup {NaN}

I16Inputs ==
    {I16Min, I16Min + 1, -721, -720, -361, -360, -359, -12, -1, 0, 1, 12, 359, 360,
     361, 720, I16Max}

U8Inputs == {0, 13, 59, 60, 61, U8Max}

\* f32 sub-second inputs: 0, a step, a whole second and more, negative, NaN
F32Inputs ==
    {FInt(0), Fin(1, F32PerSec), Fin(-1, F32PerSec), FInt(1),
     Fin(F32PerSec + 1, F32PerSec), NaN}

StrInputs == {"42.0", "-0.5", "450", "NaN", "inf", "-inf", "north", ""}

---------------------------------------------------------------------------
(* The Angle state machine: a constructor makes an Angle, which may then   *)
(* be decomposed and constructed again                                     *)

AngleFrame == UNCHANGED <<fvars, qvars, acmp, wvars, ovars, evars>>

AngleInit ==
    /\ QuantityIdle
    /\ WeatherDataIdle /\ WeatherOptsIdle /\ TestEnvsIdle
    /\ angle = AngleDefault
    /\ origin = [ctor |-> "none", arg |-> <<>>]
    /\ astatus = "none"
    /\ acmp = <<>>
    /\ list = <<>>
    /\ timezone = 0
    /\ high_low = EmptyMap
    /\ forecast = <<>>
    /\ fpc = "build"

Default ==
    /\ astatus = "none"
    /\ angle' = AngleDefault
    /\ origin' = [ctor |-> "default", arg |-> <<>>]
    /\ astatus' = "ok"
    /\ AngleFrame

FromDeg(d) ==
    /\ astatus = "none"
    /\ angle' = from_deg(d)
    /\ origin' = [ctor |-> "from_deg", arg |-> d]
    /\ astatus' = "ok"
    /\ AngleFrame

\* impl From<f64> for Angle
FromF64(d) ==
    /\ astatus = "none"
    /\ angle' = from_deg(d)
    /\ origin' = [ctor |-> "from", arg |-> d]
    /\ astatus' = "ok"
    /\ AngleFrame

FromRadian(r) ==
    /\ astatus = "none"
    /\ angle' = from_radian(r)
    /\ origin' = [ctor |-> "from_radian", arg |-> r]
    /\ astatus' = "ok"
    /\ AngleFrame

\* impl FromStr for Angle: a string that is no number is an Err and no Angle
FromStr(s) ==
    /\ astatus = "none"
    /\ ParseF64(s).ok
    /\ angle' = from_deg(ParseF64(s).value)
    /\ origin' = [ctor |-> "from_str", arg |-> s]
    /\ astatus' = "ok"
    /\ AngleFrame

\* the build decides what the overflow of i16::abs does
FromDegMinSecSubsec(degree, minute, second, subsec) ==
    /\ astatus = "none"
    /\ \E overflow_checks \in BOOLEAN :
        LET r == from_deg_min_sec_subsec(degree, minute, second, subsec, overflow_checks)
        IN  /\ angle' = IF r.panicked THEN angle ELSE r.angle
            /\ origin' = [ctor |-> "from_deg_min_sec_subsec",
                          arg |-> <<degree, minute, second, subsec>>]
            /\ astatus' = IF r.panicked THEN "panic" ELSE "ok"
    /\ AngleFrame

\* from_deg_min_sec_subsec applied to the decomposition of the Angle that exists
Renormalize ==
    /\ astatus = "ok"
    /\ origin.ctor # "renormalize"
    /\ \E overflow_checks \in BOOLEAN :
        LET c == deg_min_sec_subsec(angle)
            r == from_deg_min_sec_subsec(c[1], c[2], c[3], c[4], overflow_checks)
        IN  /\ angle' = IF r.panicked THEN angle ELSE r.angle
            /\ origin' = [ctor |-> "renormalize", arg |-> angle]
            /\ astatus' = IF r.panicked THEN "panic" ELSE "ok"
    /\ AngleFrame

AngleNext ==
    \/ Default
    \/ \E d \in DegInputs : FromDeg(d)
    \/ \E d \in DegInputs : FromF64(d)
    \/ \E r \in RadInputs : FromRadian(r)
    \/ \E s \in StrInputs : FromStr(s)
    \/ \E degree \in I16Inputs, minute \in U8Inputs, second \in U8Inputs,
          subsec \in F32Inputs : FromDegMinSecSubsec(degree, minute, second, subsec)
    \/ Renormalize

SpecAngle == AngleInit /\ [][AngleNext]_vars

(* Angle equality and hashing: an Angle is constructed, then two more, and *)
(* the three are compared and hashed                                       *)

\* decimal degrees a quarter turn apart over MaxTurns turns either way, and
\* half a degree
EqDegInputs ==
    {FInt(sg * (t * 360 + w)) : sg \in {-1, 1}, t \in 0..MaxTurns, w \in {0, 90, 270}}
        \cup {Fin(1, 2), Fin(-1, 2)}

EqHash(d1, d2) ==
    /\ astatus = "ok"
    /\ acmp = None
    /\ LET a == angle
           b == from_deg(d1)
           c == from_deg(d2)
       IN  acmp' = Some([b |-> b, c |-> c,
                         eq_aa |-> AngleEq(a, a), eq_ab |-> AngleEq(a, b),
                         eq_ba |-> AngleEq(b, a), eq_bc |-> AngleEq(b, c),
                         eq_ac |-> AngleEq(a, c),
                         hash_a |-> AngleHash(a), hash_b |-> AngleHash(b)])
    /\ UNCHANGED <<angle, origin, astatus>>
    /\ UNCHANGED <<fvars, qvars, wvars, ovars, evars>>

AngleEqNext ==
    \/ \E d \in EqDegInputs : FromDeg(d)
    \/ \E d1 \in EqDegInputs, d2 \in EqDegInputs : EqHash(d1, d2)

SpecAngleEq == AngleInit /\ [][AngleEqNext]_vars

---------------------------------------------------------------------------
(* The validated quantity types (src/humidity.rs, distance.rs,             *)
(* pressure.rs, speed.rs, precipitation.rs, temperature.rs, timezone.rs,   *)
(* latitude.rs, longitude.rs, direction.rs)                                *)
(*                                                                         *)
(* A Result<T, Error> is [ok, value, error]: value is Some(inner) of Ok,   *)
(* error is Some(e) of Err.  An error is [variant, item, text]: the enum   *)
(* variant, the value interpolated into the message (None when the message *)
(* has none) and the literal pieces of the message.                        *)

Ok(v) == [ok |-> TRUE, value |-> Some(v), error |-> None]

Err(e) == [ok |-> FALSE, value |-> None, error |-> Some(e)]

\* Error::InvalidValue(format_string!("{item} <text>"))
InvalidValue(item, text) ==
    [variant |-> "InvalidValue", item |-> Some(item), text |-> text]

\* format_err!("{item} <text>")
format_err(item, text) ==
    [variant |-> "Error", item |-> Some(item), text |-> text]

\* the Display of nutype's GreaterOrEqualViolated for each type
TooSmall ==
    [Pressure |-> "Pressure is too small. The value must be greater or equal to 0.0.",
     Speed |-> "Speed is too small. The value must be greater or equal to 0.0.",
     Temperature |-> "Temperature is too small. The value must be greater or equal to 0.0."]

ErrorVariant ==
    [Pressure |-> "PressureError", Speed |-> "SpeedError",
     Temperature |-> "TemperatureError"]

\* <Type>Error::GreaterOrEqualViolated: the error holds no value
GreaterOrEqualViolated(type) ==
    [variant |-> ErrorVariant[type], item |-> None, text |-> <<TooSmall[type]>>]

Humidity_try_from_Exclusive(item) ==
    IF item >= 0 /\ item < 100
    THEN Ok(item)
    ELSE Err(InvalidValue(item, <<"is not a valid relative humidity">>))

\* (0..=100).contains(&item)
Humidity_try_from(item) ==
    IF item >= 0 /\ item <= 100
    THEN Ok(item)
    ELSE Err(InvalidValue(item, <<"is not a valid relative humidity">>))

TimeZone_try_from_Inclusive(item) ==
    IF item >= -SecondsPerDay /\ item <= SecondsPerDay
    THEN Ok(item)
    ELSE Err(format_err(item, <<"is not a valid timezone">>))

TimeZone_try_from(item) ==
    IF item > -SecondsPerDay /\ item < SecondsPerDay
    THEN Ok(item)
    ELSE Err(format_err(item, <<"is not a valid timezone">>))

Distance_try_from_NoItem(item) ==
    IF FGeZero(item)
    THEN Ok(item)
    ELSE Err([variant |-> "InvalidValue", item |-> None,
              text |-> <<"is not a valid distance">>])

\* `item >= 0.0`: NaN takes the else branch
Distance_try_from(item) ==
    IF FGeZero(item)
    THEN Ok(item)
    ELSE Err(InvalidValue(item, <<"is not a valid distance">>))

\* miles * METERS_PER_MILE, METERS_PER_MILE = 1609.344
Distance_from_miles(miles) == Distance_try_from(FScale(miles, 1609344, 1000))

\* `item < 0.0`: NaN takes the else branch
Precipitation_try_from(item) ==
    IF FLtZero(item)
    THEN Err(InvalidValue(item, <<"is not a valid precipitation amount">>))
    ELSE Ok(item)

\* precip * MM_PER_INCH, MM_PER_INCH = 25.4
Precipitation_from_inches(precip) == Precipitation_try_from(FScale(precip, 254, 10))

\* the derived Add on two f64 millimetre values: the sum of the inner
\* values, taken on their common denominator
Precipitation_add(a, b) ==
    IF a.k = "fin" /\ b.k = "fin"
    THEN LET l == LCM(a.d, b.d)
         IN  Fin(PrecipitationAdd(a.n * (l \div a.d), b.n * (l \div b.d)), l)
    ELSE FAdd(a, b)

try_new_Greater(type, val) ==
    IF FGeZero(val) /\ ~ (val.k = "fin" /\ val.n = 0)
    THEN Ok(val)
    ELSE Err(GreaterOrEqualViolated(type))

\* nutype's try_new under validate(greater_or_equal = 0.0): a value below
\* the bound is rejected
try_new(type, val) ==
    IF FLtZero(val) THEN Err(GreaterOrEqualViolated(type)) ELSE Ok(val)

\* HECTO = 1.0, KILO = 1_000.0 / 100.0, ATM = 98.0665 * HECTO / KILO,
\* PSI = 14.223 / ATM
Pressure_from_hpa(hpa) == try_new("Pressure", hpa)

Pressure_from_kpa(kpa) == try_new("Pressure", FScale(kpa, 1, 10))

Pressure_from_atmosphere(atm) == try_new("Pressure", FScale(atm, 980665, 100000))

Pressure_from_psi(psi) == try_new("Pressure", FScale(psi, 980665, 1422300))

Speed_from_mps(mps) == try_new("Speed", mps)

\* mph * METERS_PER_MILE / SECONDS_PER_HOUR
Speed_from_mph(mph) == try_new("Speed", FScale(mph, 1609344, 3600000))

\* map_err(|e| Error::InvalidValue("{e}: {t} is not a valid temperature in .."))
TemperatureMapErr(res, t, text) ==
    IF res.ok THEN res
    ELSE Err(InvalidValue(t, <<res.error[1].text[1], text>>))

Temperature_from_kelvin(t) ==
    TemperatureMapErr(try_new("Temperature", t), t,
                      "is not a valid temperature in Kelvin")

\* t + FREEZING_POINT_KELVIN, FREEZING_POINT_KELVIN = 273.15
Temperature_from_celcius(t) ==
    TemperatureMapErr(try_new("Temperature", FAdd(t, Fin(27315, 100))), t,
                      "is not a valid temperature in Celcius")

\* (t + FAHRENHEIT_OFFSET) / FAHRENHEIT_FACTOR, 459.67 and 1.8
Temperature_from_fahrenheit(t) ==
    TemperatureMapErr(try_new("Temperature",
                              FScale(FAdd(t, Fin(45967, 100)), 10, 18)), t,
                      "is not a valid temperature in Fahrenheit")

\* TimeZone::default(): derive(Default) on TimeZone(i32)
TimeZone_default == 0

\* time's UtcOffset::from_whole_seconds: an offset is less than a day
from_whole_seconds(seconds) ==
    IF seconds > -SecondsPerDay /\ seconds < SecondsPerDay
    THEN Ok(seconds)
    ELSE Err([variant |-> "ComponentRange", item |-> None, text |-> <<"seconds">>])

TimeZone_into_Minutes(z) ==
    LET r == from_whole_seconds(z * 60)
    IN  [panicked |-> ~ r.ok, offset |-> r.value]

\* impl From<TimeZone> for UtcOffset: unreachable!() of an Err
TimeZone_into(z) ==
    LET r == from_whole_seconds(z)
    IN  [panicked |-> ~ r.ok, offset |-> r.value]

HASH_FACTOR == 1000000

I32Max == 2147483647

I32Min == -I32Max - 1

\* the upper end of `as u32`, held at the largest integer of the checker: no
\* coordinate scaled by HASH_FACTOR comes near it
U32Max == I32Max

Latitude_try_from_HalfOpen(item) ==
    IF FGe(item, -90) /\ FLe(item, 90) /\ item # FInt(90)
    THEN Ok(item)
    ELSE Err(format_err(item, <<"is not a valid latitude">>))

\* item >= -90.0 && item <= 90.0
Latitude_try_from(item) ==
    IF FGe(item, -90) /\ FLe(item, 90)
    THEN Ok(item)
    ELSE Err(format_err(item, <<"is not a valid latitude">>))

\* item >= -180.0 && item <= 180.0
Longitude_try_from(item) ==
    IF FGe(item, -180) /\ FLe(item, 180)
    THEN Ok(item)
    ELSE Err(format_err(item, <<"is not a valid longitude">>))

\* (self.0 * HASH_FACTOR) as i32 == (other.0 * HASH_FACTOR) as i32
Latitude_eq(a, b) ==
    CastInt(FMul(a, HASH_FACTOR), I32Min, I32Max)
        = CastInt(FMul(b, HASH_FACTOR), I32Min, I32Max)

\* ((self.0 * HASH_FACTOR) as u32).hash(state): the value fed to the
\* hasher; a negative product saturates to 0
Latitude_hash(a) == CastInt(FMul(a, HASH_FACTOR), 0, U32Max)

Longitude_eq_Abs(a, b) ==
    CastInt(FMul(FAbs(a), HASH_FACTOR), I32Min, I32Max)
        = CastInt(FMul(FAbs(b), HASH_FACTOR), I32Min, I32Max)

Longitude_eq(a, b) ==
    CastInt(FMul(a, HASH_FACTOR), I32Min, I32Max)
        = CastInt(FMul(b, HASH_FACTOR), I32Min, I32Max)

Longitude_hash(a) == CastInt(FMul(a, HASH_FACTOR), 0, U32Max)

\* From<f64> for Direction
Direction_from(item) ==
    IF FGeZero(item)
    THEN FRem(item, 360)
    ELSE FAdd(FRem(item, 360), FInt(360))

Direction_from_deg(d) == Direction_from(d)

\* rad * 180.0 / PI, of radians held as whole arc minutes (see to_degrees)
Direction_from_radian(rad) == Direction_from(FDiv(rad, 60))

\* Direction::deg
Direction_deg(v) == v

(* Input domains of the quantity model *)

\* the largest whole magnitude among the small inputs
MaxMagnitude == 3

\* f64 inputs: halves up to MaxMagnitude of either sign, and the non-finite
F64Inputs ==
    {Fin(n, 2) : n \in (-2 * MaxMagnitude)..(2 * MaxMagnitude)}
        \cup {NaN, Inf(1), Inf(-1)}

\* i64 inputs about the two ends of 0..=100, and far from them
I64Inputs ==
    (-MaxMagnitude..MaxMagnitude) \cup ((100 - MaxMagnitude)..(100 + MaxMagnitude))
        \cup {-86, 86, -I32Max, I32Max}

\* i32 inputs about the two ends of the day, and far from them
I32Inputs ==
    {s * SecondsPerDay + k : s \in {-1, 0, 1}, k \in -MaxMagnitude..MaxMagnitude}
        \cup {-100000, 100000, I32Min, I32Max}

\* coordinates in halves of a millionth of a degree about 0 and about the
\* two ends of the range, and some away from them
CoordInputs(limit) ==
    {Fin(c * 2 * HASH_FACTOR + k, 2 * HASH_FACTOR) :
        c \in {-limit, 0, limit}, k \in (-MaxMagnitude - 1)..(MaxMagnitude + 1)}
        \cup {Fin(41, 1), Fin(-41, 1), Fin(2 * limit, 1), NaN, Inf(1), Inf(-1)}

\* degrees of a bearing: halves about the multiples of 360
BearingInputs ==
    {Fin(t * 720 + k, 2) : t \in -2..2, k \in (-MaxMagnitude)..MaxMagnitude}
        \cup {Fin(90, 1), Fin(-90, 1), NaN, Inf(1), Inf(-1)}

F64Ctors ==
    {<<"Distance", "try_from">>, <<"Distance", "from_miles">>,
     <<"Precipitation", "try_from">>, <<"Precipitation", "from_inches">>,
     <<"Pressure", "try_new">>, <<"Pressure", "from_hpa">>,
     <<"Pressure", "from_kpa">>, <<"Pressure", "from_atmosphere">>,
     <<"Pressure", "from_psi">>,
     <<"Speed", "try_new">>, <<"Speed", "from_mps">>, <<"Speed", "from_mph">>,
     <<"Temperature", "try_new">>, <<"Temperature", "from_kelvin">>,
     <<"Temperature", "from_celcius">>, <<"Temperature", "from_fahrenheit">>}

\* the constructor `ctor` of `type` applied to x
Construct(type, ctor, x) ==
    CASE type = "Distance" /\ ctor = "try_from" -> Distance_try_from(x)
      [] type = "Distance" /\ ctor = "from_miles" -> Distance_from_miles(x)
      [] type = "Precipitation" /\ ctor = "try_from" -> Precipitation_try_from(x)
      [] type = "Precipitation" /\ ctor = "from_inches" -> Precipitation_from_inches(x)
      [] type = "Pressure" /\ ctor = "try_new" -> try_new("Pressure", x)
      [] type = "Pressure" /\ ctor = "from_hpa" -> Pressure_from_hpa(x)
      [] type = "Pressure" /\ ctor = "from_kpa" -> Pressure_from_kpa(x)
      [] type = "Pressure" /\ ctor = "from_atmosphere" -> Pressure_from_atmosphere(x)
      [] type = "Pressure" /\ ctor = "from_psi" -> Pressure_from_psi(x)
      [] type = "Speed" /\ ctor = "try_new" -> try_new("Speed", x)
      [] type = "Speed" /\ ctor = "from_mps" -> Speed_from_mps(x)
      [] type = "Speed" /\ ctor = "from_mph" -> Speed_from_mph(x)
      [] type = "Temperature" /\ ctor = "try_new" -> try_new("Temperature", x)
      [] type = "Temperature" /\ ctor = "from_kelvin" -> Temperature_from_kelvin(x)
      [] type = "Temperature" /\ ctor = "from_celcius" -> Temperature_from_celcius(x)
      [] type = "Temperature" /\ ctor = "from_fahrenheit" -> Temperature_from_fahrenheit(x)

Quantity(type, ctor, x, res) ==
    [type |-> type, ctor |-> ctor, arg |-> Some(x), res |-> res]

(* The quantity state machine: a constructor is applied to an input; of a  *)
(* Latitude, Longitude or Precipitation a second value is constructed and  *)
(* the two are compared, hashed or added                                   *)

QuantityFrame == UNCHANGED <<fvars, avars, wvars, ovars, evars>>

QuantityInit ==
    /\ QuantityIdle
    /\ WeatherDataIdle /\ WeatherOptsIdle /\ TestEnvsIdle
    /\ angle = AngleDefault
    /\ origin = [ctor |-> "none", arg |-> <<>>]
    /\ astatus = "none"
    /\ acmp = <<>>
    /\ list = <<>>
    /\ timezone = 0
    /\ high_low = EmptyMap
    /\ forecast = <<>>
    /\ fpc = "build"

\* the first value of a behaviour
HumidityTryFrom(x) ==
    /\ qpc = "none"
    /\ qa' = Quantity("Humidity", "try_from", x, Humidity_try_from(x))
    /\ qpc' = "one"
    /\ UNCHANGED <<qb, qop>>
    /\ QuantityFrame

TimeZoneTryFrom(x) ==
    /\ qpc = "none"
    /\ qa' = Quantity("TimeZone", "try_from", x, TimeZone_try_from(x))
    /\ qpc' = "one"
    /\ UNCHANGED <<qb, qop>>
    /\ QuantityFrame

\* TimeZone::default()
TimeZoneDefault ==
    /\ qpc = "none"
    /\ qa' = [type |-> "TimeZone", ctor |-> "default", arg |-> None,
              res |-> Ok(TimeZone_default)]
    /\ qpc' = "one"
    /\ UNCHANGED <<qb, qop>>
    /\ QuantityFrame

\* a TimeZone that exists is converted to a UtcOffset
TimeZoneInto ==
    /\ qpc = "one"
    /\ qa.type = "TimeZone"
    /\ qa.res.ok
    /\ qop' = Some(TimeZone_into(qa.res.value[1]))
    /\ qpc' = "done"
    /\ UNCHANGED <<qa, qb>>
    /\ QuantityFrame

DirectionFromDeg(d) ==
    /\ qpc = "none"
    /\ qa' = Quantity("Direction", "from_deg", d, Ok(Direction_from_deg(d)))
    /\ qpc' = "one"
    /\ UNCHANGED <<qb, qop>>
    /\ QuantityFrame

\* impl From<f64> for Direction
DirectionFrom(d) ==
    /\ qpc = "none"
    /\ qa' = Quantity("Direction", "from", d, Ok(Direction_from(d)))
    /\ qpc' = "one"
    /\ UNCHANGED <<qb, qop>>
    /\ QuantityFrame

DirectionFromRadian(r) ==
    /\ qpc = "none"
    /\ qa' = Quantity("Direction", "from_radian", r, Ok(Direction_from_radian(r)))
    /\ qpc' = "one"
    /\ UNCHANGED <<qb, qop>>
    /\ QuantityFrame

\* a constructor of Distance, Precipitation, Pressure, Speed or Temperature;
\* of Precipitation a second value may follow a valid first
F64Construct(type, ctor, x) ==
    /\ \/ /\ qpc = "none"
          /\ qa' = Quantity(type, ctor, x, Construct(type, ctor, x))
          /\ qpc' = "one"
          /\ UNCHANGED <<qb, qop>>
       \/ /\ qpc = "one"
          /\ type = "Precipitation" /\ qa.type = "Precipitation"
          /\ qa.res.ok
          /\ qb' = Quantity(type, ctor, x, Construct(type, ctor, x))
          /\ qpc' = "two"
          /\ UNCHANGED <<qa, qop>>
    /\ QuantityFrame

\* the first Latitude, or a second one after a valid first
LatitudeTryFrom(x) ==
    /\ \/ /\ qpc = "none"
          /\ qa' = Quantity("Latitude", "try_from", x, Latitude_try_from(x))
          /\ qpc' = "one"
          /\ UNCHANGED <<qb, qop>>
       \/ /\ qpc = "one"
          /\ qa.type = "Latitude"
          /\ qa.res.ok
          /\ qb' = Quantity("Latitude", "try_from", x, Latitude_try_from(x))
          /\ qpc' = "two"
          /\ UNCHANGED <<qa, qop>>
    /\ QuantityFrame

LongitudeTryFrom(x) ==
    /\ \/ /\ qpc = "none"
          /\ qa' = Quantity("Longitude", "try_from", x, Longitude_try_from(x))
          /\ qpc' = "one"
          /\ UNCHANGED <<qb, qop>>
       \/ /\ qpc = "one"
          /\ qa.type = "Longitude"
          /\ qa.res.ok
          /\ qb' = Quantity("Longitude", "try_from", x, Longitude_try_from(x))
          /\ qpc' = "two"
          /\ UNCHANGED <<qa, qop>>
    /\ QuantityFrame

\* a == b and the hashes of the two Latitudes
LatitudeEqHash ==
    /\ qpc = "two"
    /\ qa.type = "Latitude"
    /\ qb.res.ok
    /\ qop' = Some([eq |-> Latitude_eq(qa.res.value[1], qb.res.value[1]),
                    hash_a |-> Latitude_hash(qa.res.value[1]),
                    hash_b |-> Latitude_hash(qb.res.value[1])])
    /\ qpc' = "done"
    /\ UNCHANGED <<qa, qb>>
    /\ QuantityFrame

LongitudeEqHash ==
    /\ qpc = "two"
    /\ qa.type = "Longitude"
    /\ qb.res.ok
    /\ qop' = Some([eq |-> Longitude_eq(qa.res.value[1], qb.res.value[1]),
                    hash_a |-> Longitude_hash(qa.res.value[1]),
                    hash_b |-> Longitude_hash(qb.res.value[1])])
    /\ qpc' = "done"
    /\ UNCHANGED <<qa, qb>>
    /\ QuantityFrame

\* a + b of two Precipitations
PrecipitationSum ==
    /\ qpc = "two"
    /\ qa.type = "Precipitation"
    /\ qb.res.ok
    /\ qop' = Some([sum |-> Precipitation_add(qa.res.value[1], qb.res.value[1])])
    /\ qpc' = "done"
    /\ UNCHANGED <<qa, qb>>
    /\ QuantityFrame

QuantityNext ==
    \/ \E x \in I64Inputs : HumidityTryFrom(x)
    \/ \E x \in I32Inputs : TimeZoneTryFrom(x)
    \/ \E c \in F64Ctors, x \in F64Inputs : F64Construct(c[1], c[2], x)
    \/ \E x \in CoordInputs(90) : LatitudeTryFrom(x)
    \/ \E x \in CoordInputs(180) : LongitudeTryFrom(x)
    \/ TimeZoneDefault
    \/ TimeZoneInto
    \/ \E d \in BearingInputs : DirectionFromDeg(d)
    \/ \E d \in BearingInputs : DirectionFrom(d)
    \/ \E r \in RadInputs : DirectionFromRadian(r)
    \/ LatitudeEqHash
    \/ LongitudeEqHash
    \/ PrecipitationSum

SpecQuantity == QuantityInit /\ [][QuantityNext]_vars

(* Precipitation in both its uses: the sums of the forecast fold and the   *)
(* sum of two constructed values.  The two share no state, so a behaviour  *)
(* runs one or the other.                                                  *)

PrecipitationNext ==
    \/ qpc = "none" /\ ForecastNext
    \/ /\ list = <<>> /\ fpc = "build"
       /\ \/ \E c \in {"try_from", "from_inches"}, x \in F64Inputs :
                F64Construct("Precipitation", c, x)
          \/ PrecipitationSum

SpecPrecipitation == ForecastInit /\ [][PrecipitationNext]_vars

---------------------------------------------------------------------------
(* Reference definitions for the forecast claims, written from the claims' *)
(* words and independent of the fold                                       *)

DayRange == -2..3

\* the samples of the list whose instant, shifted by the offset, lies in day d
SamplesOn(d) ==
    { i \in 1..Len(list) :
        /\ d * SecondsPerDay <= list[i].dt + timezone
        /\ list[i].dt + timezone < (d + 1) * SecondsPerDay }

LocalDates == { d \in DayRange : SamplesOn(d) # {} }

RainAmountOrZero(e) ==
    IF e.rain = <<>> THEN 0
    ELSE IF e.rain[1].three_hour = <<>> THEN 0 ELSE e.rain[1].three_hour[1]

SnowAmountOrZero(e) ==
    IF e.snow = <<>> THEN 0
    ELSE IF e.snow[1].three_hour = <<>> THEN 0 ELSE e.snow[1].three_hour[1]

RECURSIVE SumRain(_)
SumRain(S) ==
    IF S = {} THEN 0
    ELSE LET i == CHOOSE x \in S : TRUE
         IN  RainAmountOrZero(list[i]) + SumRain(S \ {i})

RECURSIVE SumSnow(_)
SumSnow(S) ==
    IF S = {} THEN 0
    ELSE LET i == CHOOSE x \in S : TRUE
         IN  SnowAmountOrZero(list[i]) + SumSnow(S \ {i})

IconsOf(e) == { e.weather[k].icon : k \in 1..Len(e.weather) }

\* C1: after get_high_low, every day bucket's rain total is the sum of the
\* rain amounts (absent counted as zero) of the samples of that local date,
\* and its snow total the sum of their snow amounts.
C1_RainSnowTotals ==
    fpc = "high_low" =>
        \A d \in DOMAIN high_low :
            /\ high_low[d][3] = SumRain(SamplesOn(d))
            /\ high_low[d][4] = SumSnow(SamplesOn(d))

\* C2: after get_high_low, every day bucket's high is the maximum temp_max
\* and its low the minimum temp_min over the samples of that local date.
C2_HighLow ==
    fpc = "high_low" =>
        \A d \in DOMAIN high_low :
            /\ SamplesOn(d) # {}
            /\ \E i \in SamplesOn(d) : high_low[d][1] = list[i].main.temp_max
            /\ \A i \in SamplesOn(d) : high_low[d][1] >= list[i].main.temp_max
            /\ \E i \in SamplesOn(d) : high_low[d][2] = list[i].main.temp_min
            /\ \A i \in SamplesOn(d) : high_low[d][2] <= list[i].main.temp_min

\* three samples on one local day with temp_max 10, 15, 12 and temp_min
\* 2, 5, 1 have been folded into a bucket with high 15 and low 1
C2_Witness ==
    /\ fpc = "high_low"
    /\ \E d \in DOMAIN high_low :
        /\ Cardinality(SamplesOn(d)) = 3
        /\ { list[i].main.temp_max : i \in SamplesOn(d) } = {10, 15, 12}
        /\ high_low[d][1] = 15
        /\ high_low[d][2] = 1

\* C3: after get_high_low, every day bucket's icon set is the union of the
\* icon sets of the samples of that local date.
C3_IconUnion ==
    fpc = "high_low" =>
        \A d \in DOMAIN high_low :
            high_low[d][5] = UNION { IconsOf(list[i]) : i \in SamplesOn(d) }

\* C4: the key set of the map returned by get_high_low is exactly the set of
\* local calendar dates of the samples under the city's offset (a sample
\* without a rain or snow field, or without a 3-hour amount, included), and
\* an empty list gives an empty map.
C4_KeySet ==
    fpc = "high_low" =>
        /\ DOMAIN high_low = LocalDates
        /\ (list = <<>> => high_low = EmptyMap)

\* a non-zero offset brings two samples of different UTC dates to one local
\* date, the first without a rain field and the second with a rain field
\* that has no amount
C4_Witness ==
    /\ fpc = "high_low"
    /\ timezone # 0
    /\ Len(list) = 2
    /\ list[1].rain = None
    /\ list[2].rain # None /\ list[2].rain[1].three_hour = None
    /\ list[1].dt \div SecondsPerDay # list[2].dt \div SecondsPerDay
    /\ \E i \in 1..Len(list) :
          list[i].dt \div SecondsPerDay \notin DOMAIN high_low
    /\ Cardinality(DOMAIN high_low) = 1

\* C5: get_forecast returns the header first, then exactly one line per
\* local date of the samples, in strictly ascending date order.
C5_ForecastOrder ==
    fpc = "forecast" =>
        /\ Len(forecast) = 1 + Cardinality(LocalDates)
        /\ forecast[1] = ForecastHeader
        /\ \A n \in 2..Len(forecast) : forecast[n].date \in LocalDates
        /\ \A n \in 2..Len(forecast) : \A m \in 2..Len(forecast) :
              n < m => forecast[n].date < forecast[m].date

\* the samples arrive latest day first and the forecast lists two days
C5_Witness ==
    /\ fpc = "forecast"
    /\ Len(list) >= 2
    /\ list[1].dt > list[2].dt
    /\ Len(forecast) = 3
    /\ forecast[2].date < forecast[3].date

---------------------------------------------------------------------------
(* The Angle claims *)

\* 1e-5 of a degree, which is many f32 steps of a value of seconds: one f32
\* step of the model, in degrees
DegTolerance == Fin(1, 3600 * F32PerSec)

\* x and y are numbers no further than t apart
Within(x, y, t) ==
    /\ x.k = "fin"
    /\ y.k = "fin"
    /\ FSub(FAbs(FSub(x, y)), t).n <= 0

\* d reduced modulo 360, the sign of d kept
ReducedDegrees(x) ==
    LET m == Abs(x.n) % (360 * x.d)
    IN  Fin(IF x.n < 0 THEN -m ELSE m, x.d)

\* C6: for every finite d, Angle::from_deg(d).deg() is within the tolerance
\* of d reduced modulo 360 with the sign of d, also for a negative d of less
\* than one degree after the reduction.
C6_DegRoundTrip ==
    (origin.ctor = "from_deg" /\ origin.arg.k = "fin") =>
        Within(deg(angle), ReducedDegrees(origin.arg), DegTolerance)

\* C7: for every finite d, Angle::from_deg(d) equals Angle::from_deg(d + 360).
C7_FullTurnEqual ==
    (origin.ctor = "from_deg" /\ origin.arg.k = "fin") =>
        AngleEq(angle, from_deg(FAdd(origin.arg, FInt(360))))

\* C8: every Angle a constructor produced has -360 < degree < 360,
\* minute < 60, second < 60 and 0 <= subsec < 1.
C8_Canonical ==
    astatus = "ok" =>
        /\ -360 < angle.degree /\ angle.degree < 360
        /\ 0 <= angle.minute /\ angle.minute < 60
        /\ 0 <= angle.second /\ angle.second < 60
        /\ angle.subsec.k = "fin"
        /\ 0 <= angle.subsec.n /\ angle.subsec.n < angle.subsec.d

\* C9: Angle::from_deg_min_sec_subsec never fails, and its result has
\* degree = sign(degree) * (|degree| mod 360), minute mod 60, second mod 60.
C9_Wraparound ==
    origin.ctor = "from_deg_min_sec_subsec" =>
        /\ astatus = "ok"
        /\ angle.degree =
              (IF origin.arg[1] >= 0 THEN 1 ELSE -1) * (Abs(origin.arg[1]) % 360)
        /\ angle.minute = origin.arg[2] % 60
        /\ angle.second = origin.arg[3] % 60

\* C10: Angle::from_deg_min_sec_subsec applied to the decomposition of an
\* Angle a returns an Angle equal to a, of the same degree, minute and second.
C10_Renormalized ==
    origin.ctor = "renormalize" =>
        /\ astatus = "ok"
        /\ AngleEq(angle, origin.arg)
        /\ angle.degree = origin.arg.degree
        /\ angle.minute = origin.arg.minute
        /\ angle.second = origin.arg.second

\* a negative Angle with minutes, seconds and a sub-second part has been
\* decomposed and constructed again
C10_Witness ==
    /\ origin.ctor = "renormalize"
    /\ astatus = "ok"
    /\ origin.arg.degree < 0
    /\ origin.arg.minute > 0
    /\ origin.arg.second > 0
    /\ origin.arg.subsec.k = "fin" /\ origin.arg.subsec.n > 0

---------------------------------------------------------------------------
(* Claims about the validated quantity types *)

\* C11: Humidity::try_from(x) succeeds exactly when 0 <= x <= 100 and then
\* stores x unchanged; every other integer yields an error.
C11_HumidityRange ==
    qa.type = "Humidity" =>
        LET x == qa.arg[1]
        IN  IF 0 <= x /\ x <= 100
            THEN qa.res.ok /\ qa.res.value = Some(x)
            ELSE ~ qa.res.ok /\ qa.res.value = None /\ qa.res.error # None

\* the upper end of the range is accepted and stored
C11_Witness ==
    /\ qa.type = "Humidity"
    /\ qa.arg = Some(100)
    /\ qa.res.ok
    /\ qa.res.value = Some(100)

(* Reference definitions for C12: the legal ranges of the claim's types    *)
(* and the words by which an error names a type                            *)

RangedTypes ==
    {"Humidity", "Distance", "Pressure", "Speed", "Precipitation",
     "Temperature", "TimeZone"}

\* the constructors whose argument is the raw value that is stored
RawCtors == {"try_from", "try_new", "from_hpa", "from_mps", "from_kelvin"}

IsNumber(type, x) == type \in {"Humidity", "TimeZone"} \/ x.k = "fin"

OutOfRange(type, x) ==
    CASE type = "Humidity" -> x < 0 \/ x > 100
      [] type = "TimeZone" -> x <= -86400 \/ x >= 86400
      [] OTHER -> x.n < 0

\* (whether a Pressure of exactly 0 is in range is the matter of C14)
InRange(type, x) ==
    CASE type = "Humidity" -> 0 <= x /\ x <= 100
      [] type = "TimeZone" -> -86400 < x /\ x < 86400
      [] type = "Pressure" -> x.n > 0
      [] OTHER -> x.n >= 0

TypeNames ==
    [Humidity |-> {"is not a valid relative humidity"},
     Distance |-> {"is not a valid distance"},
     Pressure |-> {"Pressure is too small. The value must be greater or equal to 0.0."},
     Speed |-> {"Speed is too small. The value must be greater or equal to 0.0."},
     Precipitation |-> {"is not a valid precipitation amount"},
     Temperature |-> {"Temperature is too small. The value must be greater or equal to 0.0.",
                      "is not a valid temperature in Kelvin"},
     TimeZone |-> {"is not a valid timezone"}]

NamesType(type, e) == \E i \in DOMAIN e.text : e.text[i] \in TypeNames[type]

\* the constructions whose error message is formatted from the value
FormatsValue(type, ctor) ==
    \/ type \in {"Humidity", "Distance", "Precipitation", "TimeZone"}
    \/ type = "Temperature" /\ ctor = "from_kelvin"

\* C12 as stated: for each of the seven types, a construction from an
\* out-of-range raw value returns an error that carries the offending
\* value and names the type, and a construction from an in-range raw value
\* stores it unchanged.
C12_UniformError ==
    (qa.type \in RangedTypes /\ qa.ctor \in RawCtors /\ IsNumber(qa.type, qa.arg[1])) =>
        LET x == qa.arg[1]
        IN  /\ OutOfRange(qa.type, x) =>
                /\ ~ qa.res.ok
                /\ qa.res.error[1].item = Some(x)
                /\ NamesType(qa.type, qa.res.error[1])
            /\ InRange(qa.type, x) => qa.res.ok /\ qa.res.value = Some(x)

\* C12, amended: for each of the seven types, a construction from an
\* out-of-range raw value returns an error that names the type, and a
\* construction from an in-range raw value stores it unchanged; the error
\* carries the offending value for Humidity, Distance, Precipitation,
\* TimeZone and Temperature::from_kelvin, and carries no value for
\* Pressure, Speed and Temperature::try_new (GreaterOrEqualViolated).
C12_ErrorNamesType ==
    (qa.type \in RangedTypes /\ qa.ctor \in RawCtors /\ IsNumber(qa.type, qa.arg[1])) =>
        LET x == qa.arg[1]
        IN  /\ OutOfRange(qa.type, x) =>
                /\ ~ qa.res.ok
                /\ qa.res.error[1].item =
                        IF FormatsValue(qa.type, qa.ctor) THEN Some(x) ELSE None
                /\ NamesType(qa.type, qa.res.error[1])
            /\ InRange(qa.type, x) => qa.res.ok /\ qa.res.value = Some(x)

\* Pressure::from_hpa(-1.0) is an error without the value (test_pressure)
C12_Witness ==
    /\ qa.type = "Pressure"
    /\ qa.ctor = "from_hpa"
    /\ qa.arg = Some(FInt(-1))
    /\ ~ qa.res.ok
    /\ qa.res.error[1].variant = "PressureError"
    /\ qa.res.error[1].item = None


\* C13: for Distance, Precipitation, Pressure, Speed and Temperature, a
\* construction from NaN, from positive infinity or from negative infinity
\* is rejected with an error.
C13_NonFiniteRejected ==
    (/\ qa.type \in {"Distance", "Precipitation", "Pressure", "Speed", "Temperature"}
     /\ qa.arg[1].k \in {"nan", "inf"})
        => ~ qa.res.ok


PressureCtors == {"try_new", "from_hpa", "from_kpa", "from_atmosphere", "from_psi"}

\* C14 as stated: a Pressure construction (try_new, from_hpa, from_kpa,
\* from_atmosphere, from_psi) succeeds only for values strictly greater
\* than zero; exactly 0 is rejected.
C14_StrictlyPositive ==
    (qa.type = "Pressure" /\ qa.ctor \in PressureCtors /\ qa.arg[1].k # "nan") =>
        (qa.res.ok => FGeZero(qa.arg[1]) /\ qa.arg[1] # FInt(0))

\* C14, amended: a Pressure construction (try_new, from_hpa, from_kpa,
\* from_atmosphere, from_psi) succeeds exactly when the hectopascal value
\* to be stored is greater than or equal to zero; the legal range is closed
\* at 0 and exactly 0 is accepted.
C14_NonNegative ==
    (qa.type = "Pressure" /\ qa.ctor \in PressureCtors /\ qa.arg[1].k # "nan") =>
        /\ qa.res.ok <=> FGeZero(qa.arg[1])
        /\ qa.res.ok => FGeZero(qa.res.value[1])
        /\ qa.arg[1] = FInt(0) => qa.res.ok /\ qa.res.value = Some(FInt(0))

\* from_psi(0.0) is accepted and stores 0
C14_Witness ==
    /\ qa.type = "Pressure"
    /\ qa.ctor = "from_psi"
    /\ qa.arg = Some(FInt(0))
    /\ qa.res.ok
    /\ qa.res.value = Some(FInt(0))


(* Reference definitions for the coordinate claims *)

CoordLimit(type) == IF type = "Latitude" THEN 90 ELSE 180

\* -limit <= v < limit and -limit <= v <= limit of a number v
InHalfOpen(v, limit) ==
    v.k = "fin" /\ -limit * v.d <= v.n /\ v.n < limit * v.d

InClosed(v, limit) ==
    v.k = "fin" /\ -limit * v.d <= v.n /\ v.n <= limit * v.d

ScaledTruncated(v) ==
    LET n == v.n * (HASH_FACTOR \div GCD(HASH_FACTOR, v.d))
        d == v.d \div GCD(HASH_FACTOR, v.d)
    IN  IF n >= 0 THEN n \div d ELSE -((-n) \div d)

\* the two valid coordinates have been compared and hashed
Compared == qpc = "done" /\ qa.type \in {"Latitude", "Longitude"}

\* C16: for valid Latitude (and Longitude) values a and b, a == b exactly
\* when a and b scaled by 1,000,000 and truncated give the same integer,
\* and whenever a == b their hashes are identical: hashing and equality
\* use the same scaled-and-truncated key, for negative as well as positive
\* coordinates.
C16_EqHashSameKey ==
    Compared =>
        LET a == qa.res.value[1]
            b == qb.res.value[1]
        IN  /\ qop[1].eq <=> (ScaledTruncated(a) = ScaledTruncated(b))
            /\ qop[1].eq => qop[1].hash_a = qop[1].hash_b
            /\ qop[1].hash_a = ScaledTruncated(a)
            /\ qop[1].hash_b = ScaledTruncated(b)

\* C17 as stated: for every valid non-zero a, the coordinate made from a
\* and the one made from -a compare unequal.
C17_NegationUnequal ==
    (/\ Compared
     /\ qa.res.value[1].n # 0
     /\ qb.res.value[1] = Fin(-qa.res.value[1].n, qa.res.value[1].d))
        => ~ qop[1].eq

\* C17, amended: for every valid a of magnitude at least one millionth of
\* a degree, the coordinate made from a and the one made from -a compare
\* unequal (below that magnitude both truncate to 0 and compare equal).
C17_NegationUnequalAtPrecision ==
    (/\ Compared
     /\ Abs(qa.res.value[1].n) >= (qa.res.value[1].d + HASH_FACTOR - 1) \div HASH_FACTOR
     /\ qb.res.value[1] = Fin(-qa.res.value[1].n, qa.res.value[1].d))
        => ~ qop[1].eq

\* 41.0 and -41.0 compare unequal (test_latitude_not_eq_neg)
C17_Witness ==
    /\ Compared
    /\ qa.res.value = Some(FInt(41))
    /\ qb.res.value = Some(FInt(-41))
    /\ ~ qop[1].eq


\* C18: TimeZone::try_from(s) succeeds exactly when -86400 < s < 86400 and
\* then stores s unchanged; every other integer yields an error naming the
\* offending value.
C18_TimeZoneRange ==
    (qa.type = "TimeZone" /\ qa.ctor = "try_from") =>
        LET s == qa.arg[1]
        IN  IF -86400 < s /\ s < 86400
            THEN qa.res.ok /\ qa.res.value = Some(s)
            ELSE /\ ~ qa.res.ok
                 /\ qa.res.error[1].item = Some(s)
                 /\ "is not a valid timezone" \in
                        {qa.res.error[1].text[i] : i \in DOMAIN qa.res.error[1].text}

\* a whole day is rejected, and the error names it
C18_Witness ==
    /\ qa.type = "TimeZone"
    /\ qa.arg = Some(86400)
    /\ ~ qa.res.ok
    /\ qa.res.error[1].item = Some(86400)

\* C19: for every decimal-degree value d, Direction::from_deg(d).deg()
\* equals Direction::from_deg(d + 360).deg(), for negative d and for exact
\* multiples of 360 as for any other d, and the construction never fails.
C19_FullTurnSameBearing ==
    (qa.type = "Direction" /\ qa.ctor = "from_deg" /\ qa.arg[1].k = "fin") =>
        /\ qa.res.ok
        /\ Direction_deg(qa.res.value[1])
              = Direction_deg(Direction_from_deg(FAdd(qa.arg[1], FInt(360))))

\* a valid amount of precipitation: a number of millimetres, not negative
ValidAmount(v) == v.k = "fin" /\ v.n >= 0

\* C20: the sum of two valid Precipitation values is a valid Precipitation
\* whose millimetre value is the sum of the operands, and so every rain
\* total and every snow total of a get_high_low bucket is non-negative.
C20_SumValid ==
    /\ (/\ qpc = "done"
        /\ qa.type = "Precipitation"
        /\ ValidAmount(qa.res.value[1])
        /\ ValidAmount(qb.res.value[1])) =>
            /\ qop[1].sum = FAdd(qa.res.value[1], qb.res.value[1])
            /\ ValidAmount(qop[1].sum)
            /\ Precipitation_try_from(qop[1].sum).ok
    /\ fpc = "high_low" =>
            \A d \in DOMAIN high_low : high_low[d][3] >= 0 /\ high_low[d][4] >= 0

\* 1.5 mm and one inch (25.4 mm) add up to 26.9 mm
C20_Witness ==
    /\ qpc = "done"
    /\ qa.type = "Precipitation"
    /\ qa.res.value = Some(Fin(3, 2))
    /\ qb.ctor = "from_inches"
    /\ qb.res.value = Some(Fin(254, 10))
    /\ qop[1].sum = Fin(269, 10)


---------------------------------------------------------------------------
(* Claims about the order of the samples, the offset conversion and the    *)
(* range of a Direction                                                    *)

\* the lists that hold the samples of `entries` in another order
Reorderings(entries) ==
    {[i \in 1..Len(entries) |-> entries[p[i]]] : p \in Permutations(1..Len(entries))}

\* C26: the result of get_high_low does not depend on the order of the
\* samples: every permutation of the sample list (same city offset) gives
\* the same map, in keys, high, low, rain, snow and icons; and the call
\* leaves the record unchanged, so a repeated call returns the same map.
C26_OrderIndependent ==
    fpc = "high_low" =>
        /\ \A entries \in Reorderings(list) : get_high_low(entries, timezone) = high_low
        /\ get_high_low(list, timezone) = high_low


\* C28: converting any TimeZone that can exist (made by try_from, which
\* deserialization goes through, or by Default) to a UtcOffset succeeds:
\* the unreachable!() of From<TimeZone> for UtcOffset is never reached.
C28_OffsetConversionTotal ==
    (qpc = "done" /\ qa.type = "TimeZone") =>
        /\ ~ qop[1].panicked
        /\ qop[1].offset = qa.res.value

\* the largest TimeZone, a second short of a day, converts
C28_Witness ==
    /\ qpc = "done"
    /\ qa.type = "TimeZone"
    /\ qa.res.value = Some(SecondsPerDay - 1)
    /\ ~ qop[1].panicked
    /\ qop[1].offset = Some(SecondsPerDay - 1)

\* C29: every Direction made by From<f64>, from_deg or from_radian from a
\* finite input holds a value in [0, 360): non-negative and strictly below
\* 360, for positive inputs, negative inputs and exact multiples of 360.
C29_BearingRange ==
    (qa.type = "Direction" /\ qa.arg[1].k = "fin") =>
        LET v == Direction_deg(qa.res.value[1])
        IN  v.k = "fin" /\ 0 <= v.n /\ v.n < 360 * v.d


\* C27: Angle equality and hashing are consistent: for all Angles a and b
\* made by the constructors, a == b implies hash(a) == hash(b) (so for a
\* negative angle and its positive rotational equivalent, -90 and 270
\* degrees), and equality is reflexive, symmetric and transitive.
C27_EqHashConsistent ==
    acmp # None =>
        LET r == acmp[1]
        IN  /\ r.eq_ab => r.hash_a = r.hash_b
            /\ r.eq_aa
            /\ r.eq_ab <=> r.eq_ba
            /\ (r.eq_ab /\ r.eq_bc) => r.eq_ac


\* ------------------------------------------------------------------------
\* WeatherData::get_current_conditions (weather_data.rs)
\* ------------------------------------------------------------------------

\* the longest list of weather conditions of a record
MaxConditions == 2

Pow10(digits) == IF digits = 0 THEN 1 ELSE IF digits = 1 THEN 10 ELSE IF digits = 2 THEN 100 ELSE 100000

\* "{:0.N}" of a finite f64: the nearest decimal of N fractional digits,
\* a tie going to the even digit
Fixed(x, digits) ==
    LET p == Pow10(digits)
        num == x.n * p
        q == num \div x.d
        r == num - q * x.d
        up == 2 * r > x.d \/ (2 * r = x.d /\ q % 2 = 1)
    IN  Fin(IF up THEN q + 1 ELSE q, p)

\* Temperature::celcius, FREEZING_POINT_KELVIN = 273.15
Temperature_celcius(t) == FSub(t, Fin(27315, 100))

\* Temperature::fahrenheit, FAHRENHEIT_FACTOR = 1.8, FAHRENHEIT_OFFSET = 459.67
Temperature_fahrenheit(t) == FSub(FScale(t, 18, 10), Fin(45967, 100))

\* Speed::mph, SECONDS_PER_HOUR = 3600, METERS_PER_MILE = 1609.344
Speed_mph(v) == FScale(FScale(v, 3600, 1), 1000, 1609344)

\* Precipitation::inches, MM_PER_INCH = 25.4
Precipitation_inches(mm) == FScale(mm, 10, 254)

\* OffsetDateTime::to_offset and its Display: the same instant, shown as
\* the local time of the offset, with the offset
to_offset(instant, fo) == [local |-> instant + fo, offset |-> fo]

\* "Current conditions ", then the name and the country if the record has
\* a country, then the coordinates
HeaderLine(d) ==
    [label |-> "Current conditions",
     place |-> IF d.country /= None THEN Some(<<d.name, d.country[1]>>) ELSE None,
     lat |-> Fixed(d.lat, 5), lon |-> Fixed(d.lon, 5)]

WindLine(d) ==
    [label |-> "Wind",
     degrees |-> IF d.wind_deg /= None THEN d.wind_deg[1] ELSE Direction_from(FInt(0)),
     mph |-> Fixed(Speed_mph(d.wind_speed), 2)]

ConditionsLine_Placeholder(weather) ==
    [label |-> "Conditions",
     text |-> IF Len(weather) > 0 THEN weather[1].description ELSE "n/a"]

\* self.weather.get(0).map_or_else(|| "", |w| &w.description)
ConditionsLine(weather) ==
    [label |-> "Conditions",
     text |-> IF Len(weather) > 0 THEN weather[1].description ELSE ""]

\* the line of a rain or snow field: written if the field is there, a
\* missing three_hour amount printed as 0.0
PrecipitationLine(label, field) ==
    IF field /= None
    THEN <<[label |-> label,
            inches |-> IF field[1].three_hour /= None
                       THEN Precipitation_inches(field[1].three_hour[1])
                       ELSE FInt(0)]>>
    ELSE <<>>

\* the report, line by line; every write! is .unwrap_or(()), the one panic
\* of the function is the unreachable!() of the offset conversion
get_current_conditions(d) ==
    LET into == TimeZone_into(d.timezone)
    IN  IF into.panicked
        THEN [panicked |-> TRUE, lines |-> <<>>]
        ELSE LET fo == into.offset[1]
             IN  [panicked |-> FALSE,
                  lines |-> <<HeaderLine(d),
                              [label |-> "Last Updated", at |-> to_offset(d.dt, fo)],
                              [label |-> "Temperature",
                               f |-> Fixed(Temperature_fahrenheit(d.temp), 2),
                               c |-> Fixed(Temperature_celcius(d.temp), 2)],
                              [label |-> "Relative Humidity", percent |-> d.humidity],
                              WindLine(d),
                              ConditionsLine(d.weather),
                              [label |-> "Sunrise", at |-> to_offset(d.sunrise, fo)],
                              [label |-> "Sunset", at |-> to_offset(d.sunset, fo)]>>
                             \o PrecipitationLine("Rain", d.rain)
                             \o PrecipitationLine("Snow", d.snow)]

Descriptions == {"light rain", "mist"}

WeatherLists ==
    UNION {[1..n -> [description : Descriptions]] : n \in 0..MaxConditions}

\* a Rain or a Snow: no three_hour amount, none fallen, or an inch
PrecipitationFields ==
    {None, Some([three_hour |-> None]), Some([three_hour |-> Some(FInt(0))]),
     Some([three_hour |-> Some(Fin(254, 10))])}

\* the records of the model: the record of tests/weather.json (Astoria,
\* 277.65 K), with each optional part there or not
WeatherDataRecords ==
    {[WeatherDataDefault EXCEPT !.name = "Astoria", !.country = c,
        !.lat = Fin(4076, 100), !.lon = Fin(-7393, 100), !.dt = 1598930400,
        !.temp = Fin(27765, 100), !.humidity = 93,
        !.wind_speed = Fin(15, 10), !.wind_deg = w, !.weather = l,
        !.sunrise = 1598869440, !.sunset = 1598916420,
        !.rain = r, !.snow = sn, !.timezone = z] :
        c \in {None, Some("US")}, w \in {None, Some(Direction_from(FInt(90)))},
        l \in WeatherLists, r \in PrecipitationFields, sn \in PrecipitationFields,
        z \in TzValues}
        \cup {WeatherDataDefault}

WeatherDataFrame == UNCHANGED <<fvars, avars, qvars, ovars, evars>>

\* the forecast, the angle and the quantity machines at rest
ForecastAngleIdle ==
    /\ angle = AngleDefault
    /\ origin = [ctor |-> "none", arg |-> <<>>]
    /\ astatus = "none"
    /\ acmp = <<>>
    /\ list = <<>>
    /\ timezone = 0
    /\ high_low = EmptyMap
    /\ forecast = <<>>
    /\ fpc = "build"

WeatherDataInit ==
    /\ ForecastAngleIdle
    /\ QuantityIdle
    /\ WeatherOptsIdle
    /\ TestEnvsIdle
    /\ data \in WeatherDataRecords
    /\ conditions = None

GetCurrentConditions ==
    /\ conditions = None
    /\ conditions' = Some(get_current_conditions(data))
    /\ UNCHANGED data
    /\ WeatherDataFrame

WeatherDataNext == GetCurrentConditions

SpecConditions == WeatherDataInit /\ [][WeatherDataNext]_vars

\* the lines of the report that carry the label
LinesOf(label) ==
    {i \in 1..Len(conditions[1].lines) : conditions[1].lines[i].label = label}

\* C21: in the report of get_current_conditions a "Rain:" line appears
\* exactly when the record has a rain field and a "Snow:" line exactly when
\* it has a snow field, and no rain or snow line is printed with a zero
\* amount.
C21_PrecipitationLines ==
    conditions /= None =>
        /\ (LinesOf("Rain") /= {}) <=> (data.rain /= None)
        /\ (LinesOf("Snow") /= {}) <=> (data.snow /= None)
        /\ \A i \in LinesOf("Rain") \cup LinesOf("Snow") :
               conditions[1].lines[i].inches /= FInt(0)

\* C22: get_current_conditions returns a report without panicking for
\* every record, also one with no weather conditions, no wind direction
\* and no country, and the description of the conditions is the empty
\* string when the list of conditions is empty.
C22_Total ==
    conditions /= None =>
        /\ ~ conditions[1].panicked
        /\ Cardinality(LinesOf("Conditions")) = 1
        /\ Len(conditions[1].lines) \in 8..10
        /\ \A i \in LinesOf("Conditions") :
               /\ data.weather = <<>> => conditions[1].lines[i].text = ""
               /\ data.weather /= <<>> => conditions[1].lines[i].text \in Descriptions

C22_Witness ==
    /\ conditions /= None
    /\ data.weather = <<>>
    /\ data.wind_deg = None
    /\ data.country = None
    /\ ~ conditions[1].panicked
    /\ \E i \in LinesOf("Conditions") : conditions[1].lines[i].text = ""
    /\ \E i \in LinesOf("Current conditions") : conditions[1].lines[i].place = None


\* ------------------------------------------------------------------------
\* WeatherOpts (weather_opts.rs)
\* ------------------------------------------------------------------------

\* how often apply_defaults is called on one WeatherOpts
MaxApply == 2

\* the most days a forecast reports
MaxDays == 2

\* the alpha-2 codes CountryCode::for_alpha2 knows, of those of the model
KnownCountryCodes == {"US", "CA"}

\* CountryCode::for_alpha2(country_code).ok()
for_alpha2(country_code) ==
    IF country_code \in KnownCountryCodes THEN Some(country_code) ELSE None

from_zipcode(zipcode) ==
    [variant |-> "ZipCode", zipcode |-> Some(zipcode), country_code |-> None,
     city_name |-> None, latitude |-> None, longitude |-> None]

from_zipcode_country_code_str(zipcode, country_code) ==
    [variant |-> "ZipCode", zipcode |-> Some(zipcode),
     country_code |-> for_alpha2(country_code),
     city_name |-> None, latitude |-> None, longitude |-> None]

from_city_name(city_name) ==
    [variant |-> "CityName", zipcode |-> None, country_code |-> None,
     city_name |-> Some(city_name), latitude |-> None, longitude |-> None]

from_lat_lon(latitude, longitude) ==
    [variant |-> "LatLon", zipcode |-> None, country_code |-> None,
     city_name |-> None, latitude |-> Some(latitude), longitude |-> Some(longitude)]

InvalidInputError(text) ==
    [variant |-> "InvalidInputError", item |-> None, text |-> <<text>>]

\* the error of Self::clap().print_help()?
ClapError == [variant |-> "ClapError", item |-> None, text |-> <<"print_help">>]

get_location_CityFirst(o, help) ==
    IF o.city_name /= None
    THEN Ok(from_city_name(o.city_name[1]))
    ELSE IF o.zipcode /= None
    THEN IF o.country_code /= None
         THEN Ok(from_zipcode_country_code_str(o.zipcode[1], o.country_code[1]))
         ELSE Ok(from_zipcode(o.zipcode[1]))
    ELSE IF o.lat /= None /\ o.lon /= None
    THEN Ok(from_lat_lon(o.lat[1], o.lon[1]))
    ELSE IF help
    THEN Err(InvalidInputError("ERROR: You must specify at least one option"))
    ELSE Err(ClapError)

\* WeatherOpts::get_location; help is whether print_help could write
get_location(o, help) ==
    IF o.zipcode /= None
    THEN IF o.country_code /= None
         THEN Ok(from_zipcode_country_code_str(o.zipcode[1], o.country_code[1]))
         ELSE Ok(from_zipcode(o.zipcode[1]))
    ELSE IF o.city_name /= None
    THEN Ok(from_city_name(o.city_name[1]))
    ELSE IF o.lat /= None /\ o.lon /= None
    THEN Ok(from_lat_lon(o.lat[1], o.lon[1]))
    ELSE IF help
    THEN Err(InvalidInputError("ERROR: You must specify at least one option"))
    ELSE Err(ClapError)

\* WeatherOpts::get_api: the key of the WeatherApi
get_api(o) ==
    IF o.api_key /= None
    THEN Ok(o.api_key[1])
    ELSE Err(InvalidInputError("api_help_msg"))

apply_defaults_NeitherLatLon(o, c) ==
    LET k == IF o.api_key = None THEN [o EXCEPT !.api_key = c.api_key] ELSE o
    IN  IF /\ k.zipcode = None
           /\ k.country_code = None
           /\ k.city_name = None
           /\ (k.lat = None /\ k.lon = None)
        THEN LET l == [k EXCEPT !.zipcode = c.zipcode,
                                !.country_code = c.country_code,
                                !.city_name = c.city_name]
             IN  IF c.lat /= None /\ c.lon /= None
                 THEN [l EXCEPT !.lat = c.lat, !.lon = c.lon]
                 ELSE l
        ELSE k

\* WeatherOpts::apply_defaults
apply_defaults(o, c) ==
    LET k == IF o.api_key = None THEN [o EXCEPT !.api_key = c.api_key] ELSE o
    IN  IF /\ k.zipcode = None
           /\ k.country_code = None
           /\ k.city_name = None
           /\ (k.lat = None \/ k.lon = None)
        THEN LET l == [k EXCEPT !.zipcode = c.zipcode,
                                !.country_code = c.country_code,
                                !.city_name = c.city_name]
             IN  IF c.lat /= None /\ c.lon /= None
                 THEN [l EXCEPT !.lat = c.lat, !.lon = c.lon]
                 ELSE l
        ELSE k

\* the options of a command line: each option given or not, the country
\* code a known one or not
WeatherOptsInputs ==
    [zipcode : {None, Some(55427)}, country_code : {None, Some("US"), Some("ZZ")},
     city_name : {None, Some("Pittsburgh")}, lat : {None, Some(Fin(111, 10))},
     lon : {None, Some(Fin(122, 10))}, api_key : {None, Some("1234567")},
     forecast : BOOLEAN]

\* the configs of the environment
ConfigInputs ==
    [zipcode : {None, Some(8675309)}, country_code : {None, Some("CA")},
     city_name : {None, Some("Astoria")}, lat : {None, Some(Fin(101, 10))},
     lon : {None, Some(Fin(111, 10))}, api_key : {None, Some("7654321")}]

WeatherOptsFrame == UNCHANGED <<fvars, avars, qvars, wvars, evars>>

WeatherOptsInit ==
    /\ ForecastAngleIdle
    /\ QuantityIdle
    /\ WeatherDataIdle
    /\ TestEnvsIdle
    /\ opts \in WeatherOptsInputs
    /\ config \in ConfigInputs
    /\ location = None
    /\ run = RunIdle

ApplyDefaults ==
    /\ run.pc = "idle"
    /\ run.applied < MaxApply
    /\ location = None
    /\ opts' = apply_defaults(opts, config)
    /\ run' = [run EXCEPT !.applied = @ + 1]
    /\ UNCHANGED <<config, location>>
    /\ WeatherOptsFrame

GetLocation(help) ==
    /\ run.pc = "idle"
    /\ location = None
    /\ location' = Some(get_location(opts, help))
    /\ UNCHANGED <<opts, config, run>>
    /\ WeatherOptsFrame

\* run_opts up to the first await: get_api?, get_location?, then the
\* request for the data, joined with the one for the forecast if asked for
RunOpts(help) ==
    /\ run.pc = "idle"
    /\ location = None
    /\ LET api == get_api(opts)
           loc == get_location(opts, help)
       IN  run' = IF ~ api.ok
                  THEN [run EXCEPT !.pc = "done", !.result = Some(Err(api.error[1]))]
                  ELSE IF ~ loc.ok
                  THEN [run EXCEPT !.pc = "done", !.result = Some(Err(loc.error[1]))]
                  ELSE [run EXCEPT !.pc = "await", !.data = "pending",
                                   !.forecast = IF opts.forecast THEN "pending" ELSE "none"]
    /\ UNCHANGED <<opts, config, location>>
    /\ WeatherOptsFrame

\* api.get_weather_data(&loc) completes
DataCompletes(ok) ==
    /\ run.pc = "await"
    /\ run.data = "pending"
    /\ run' = [run EXCEPT !.data = IF ok THEN "ok" ELSE "failed"]
    /\ UNCHANGED <<opts, config, location>>
    /\ WeatherOptsFrame

\* api.get_weather_forecast(&loc) completes, with a forecast of some days
ForecastCompletes(ok, n) ==
    /\ run.pc = "await"
    /\ run.forecast = "pending"
    /\ run' = [run EXCEPT !.forecast = IF ok THEN "ok" ELSE "failed",
                          !.days = IF ok THEN n ELSE 0]
    /\ UNCHANGED <<opts, config, location>>
    /\ WeatherOptsFrame

RequestError(request) == [variant |-> "RequestError", item |-> None, text |-> <<request>>]

\* get_forecast: the heading and a line per day
ForecastLines(n) == <<"Forecast:">> \o [i \in 1..n |-> "day"]

run_opts_output_Partial(r) ==
    IF r.data = "failed"
    THEN Err(RequestError("data"))
    ELSE Ok(<<"Current conditions">>
                \o (IF r.forecast = "ok" THEN ForecastLines(r.days) ELSE <<>>))

\* (data?, Some(forecast?)) or (data.await?, None), then the output: the
\* current conditions, extended with the lines of the forecast
run_opts_output(r) ==
    IF r.data = "failed"
    THEN Err(RequestError("data"))
    ELSE IF r.forecast = "failed"
    THEN Err(RequestError("forecast"))
    ELSE Ok(<<"Current conditions">>
                \o (IF r.forecast = "ok" THEN ForecastLines(r.days) ELSE <<>>))

\* the join (or the single await) is over
RunOptsReturns ==
    /\ run.pc = "await"
    /\ run.data /= "pending"
    /\ run.forecast /= "pending"
    /\ run' = [run EXCEPT !.pc = "done", !.result = Some(run_opts_output(run))]
    /\ UNCHANGED <<opts, config, location>>
    /\ WeatherOptsFrame

WeatherOptsNext ==
    \/ ApplyDefaults
    \/ \E help \in BOOLEAN : GetLocation(help)
    \/ \E help \in BOOLEAN : RunOpts(help)
    \/ \E ok \in BOOLEAN : DataCompletes(ok)
    \/ \E ok \in BOOLEAN, n \in 0..MaxDays : ForecastCompletes(ok, n)
    \/ RunOptsReturns

SpecOpts == WeatherOptsInit /\ [][WeatherOptsNext]_vars


\* the options name a latitude and a longitude
HasLatLon(o) == o.lat /= None /\ o.lon /= None

\* C24: get_location resolves by fixed precedence: a zipcode (with the
\* country code if given) wins over a city name, which wins over a
\* latitude/longitude pair, produced only when both are present; when none
\* is available the result is an InvalidInputError and no location.
C24_Precedence ==
    location /= None =>
        LET r == location[1]
        IN  /\ opts.zipcode /= None =>
                 /\ r.ok /\ r.value[1].variant = "ZipCode"
                 /\ r.value[1].zipcode = opts.zipcode
                 /\ r.value[1].country_code = opts.country_code
            /\ opts.zipcode = None /\ opts.city_name /= None =>
                 /\ r.ok /\ r.value[1].variant = "CityName"
                 /\ r.value[1].city_name = opts.city_name
            /\ opts.zipcode = None /\ opts.city_name = None /\ HasLatLon(opts) =>
                 /\ r.ok /\ r.value[1].variant = "LatLon"
                 /\ r.value[1].latitude = opts.lat
                 /\ r.value[1].longitude = opts.lon
            /\ r.ok /\ r.value[1].variant = "LatLon" => HasLatLon(opts)
            /\ opts.zipcode = None /\ opts.city_name = None /\ ~ HasLatLon(opts) =>
                 /\ ~ r.ok /\ r.value = None
                 /\ r.error[1].variant = "InvalidInputError"

\* C24 (amended): the same precedence; the country code of a zipcode
\* location is the one given if it is a known alpha-2 code and none
\* otherwise; when no location is available the result is an error and no
\* location, the error InvalidInputError or that of printing the help.
C24_PrecedenceHelpError ==
    location /= None =>
        LET r == location[1]
        IN  /\ opts.zipcode /= None =>
                 /\ r.ok /\ r.value[1].variant = "ZipCode"
                 /\ r.value[1].zipcode = opts.zipcode
                 /\ r.value[1].country_code \in {opts.country_code, None}
                 /\ (r.value[1].country_code = None) <=>
                        (opts.country_code = None
                            \/ opts.country_code[1] \notin KnownCountryCodes)
            /\ opts.zipcode = None /\ opts.city_name /= None =>
                 /\ r.ok /\ r.value[1].variant = "CityName"
                 /\ r.value[1].city_name = opts.city_name
            /\ opts.zipcode = None /\ opts.city_name = None /\ HasLatLon(opts) =>
                 /\ r.ok /\ r.value[1].variant = "LatLon"
                 /\ r.value[1].latitude = opts.lat
                 /\ r.value[1].longitude = opts.lon
            /\ r.ok /\ r.value[1].variant = "LatLon" => HasLatLon(opts)
            /\ opts.zipcode = None /\ opts.city_name = None /\ ~ HasLatLon(opts) =>
                 /\ ~ r.ok /\ r.value = None
                 /\ r.error[1].variant \in {"InvalidInputError", "ClapError"}

C24_Witness ==
    /\ location /= None
    /\ opts.zipcode /= None /\ opts.country_code = Some("ZZ")
    /\ opts.city_name /= None /\ HasLatLon(opts)
    /\ location[1].ok
    /\ location[1].value[1].variant = "ZipCode"
    /\ location[1].value[1].country_code = None

\* the options name no location: no zipcode, no country code, no city name
\* and not both latitude and longitude
NamesNoLocation(o) ==
    /\ o.zipcode = None
    /\ o.country_code = None
    /\ o.city_name = None
    /\ ~ HasLatLon(o)

\* C25: apply_defaults copies the zipcode, country code, city name and
\* (only when the config has both) latitude and longitude of the config
\* exactly when the options name no location, and otherwise leaves every
\* location field unchanged; the api key is taken from the config only when
\* the options have none; a second application changes nothing.
C25_ApplyDefaults ==
    [][run'.applied = run.applied + 1 =>
        /\ NamesNoLocation(opts) =>
             /\ opts'.zipcode = config.zipcode
             /\ opts'.country_code = config.country_code
             /\ opts'.city_name = config.city_name
             /\ IF HasLatLon(config)
                THEN opts'.lat = config.lat /\ opts'.lon = config.lon
                ELSE opts'.lat = opts.lat /\ opts'.lon = opts.lon
        /\ ~ NamesNoLocation(opts) =>
             /\ opts'.zipcode = opts.zipcode
             /\ opts'.country_code = opts.country_code
             /\ opts'.city_name = opts.city_name
             /\ opts'.lat = opts.lat /\ opts'.lon = opts.lon
        /\ opts'.api_key = (IF opts.api_key = None THEN config.api_key ELSE opts.api_key)
        /\ opts'.forecast = opts.forecast
        /\ run.applied >= 1 => opts' = opts]_vars

C25_Witness ==
    /\ run.applied = 2
    /\ opts.zipcode = Some(8675309)
    /\ opts.lat = Some(Fin(101, 10)) /\ opts.lon = Some(Fin(111, 10))
    /\ opts.api_key = Some("7654321")

\* C23: run_opts with the forecast flag issues both requests together
\* and, whatever the order of their completions, returns Ok (the current
\* conditions followed by the lines of the forecast) only if both
\* succeeded; if either fails the call fails with no output. Without the
\* flag only the request for the current conditions is issued and the
\* output has exactly one entry.
C23_JoinAllOrNothing ==
    /\ run.pc = "await" =>
         /\ run.data /= "none"
         /\ opts.forecast <=> run.forecast /= "none"
    /\ ~ opts.forecast => run.forecast = "none"
    /\ run.pc = "done" =>
         LET r == run.result[1]
         IN  /\ r.ok =>
                  /\ run.data = "ok"
                  /\ r.value[1][1] = "Current conditions"
                  /\ opts.forecast =>
                       /\ run.forecast = "ok"
                       /\ Len(r.value[1]) = 2 + run.days
                       /\ r.value[1][2] = "Forecast:"
                  /\ ~ opts.forecast => Len(r.value[1]) = 1
             /\ (run.data = "failed" \/ run.forecast = "failed") =>
                  ~ r.ok /\ r.value = None

C23_Witness ==
    /\ run.pc = "done"
    /\ opts.forecast
    /\ run.data = "ok"
    /\ run.forecast = "failed"
    /\ ~ run.result[1].ok


\* ------------------------------------------------------------------------
\* TestEnvs and TEST_MUTEX (config.rs)
\* ------------------------------------------------------------------------

\* the threads (tests) that use TestEnvs
MaxThreads == 2

\* how many set_var / remove_var a test does while it holds its TestEnvs
MaxSets == 2

Threads == 1..MaxThreads

EnvKeys == {"API_KEY", "LAT"}

\* the keys a test hands to TestEnvs::new; a key may be named twice
KeyLists == {<<"API_KEY">>, <<"LAT", "API_KEY">>, <<"LAT", "API_KEY", "LAT">>}

\* the value a variable has before any test: 0; a test t sets the value t
Original == 0

\* for (key, val) in &self.envs: set_var(key, val) or remove_var(key);
\* both leave the variable at val
Restore(e, entry) == [e EXCEPT ![entry[1]] = entry[2]]

TestEnvsFrame == UNCHANGED <<fvars, avars, qvars, wvars, ovars>>

TestEnvsInit ==
    /\ ForecastAngleIdle
    /\ QuantityIdle
    /\ WeatherDataIdle
    /\ WeatherOptsIdle
    /\ env \in [EnvKeys -> {None, Some(Original)}]
    /\ mutex = None
    /\ threads \in [Threads -> [pc : {"start"}, keys : KeyLists, envs : {<<>>},
                                i : {0}, sets : {0}]]

\* TestEnvs::new: let guard = TEST_MUTEX.lock(), which blocks while the
\* mutex is held
TestEnvsLock(t) ==
    /\ threads[t].pc = "start"
    /\ mutex = None
    /\ mutex' = Some(t)
    /\ threads' = [threads EXCEPT ![t].pc = "locked"]
    /\ UNCHANGED env
    /\ TestEnvsFrame

\* TestEnvs::new: envs = keys.iter().map(|k| (k, var_os(k))).collect()
TestEnvsSnapshot(t) ==
    /\ threads[t].pc = "locked"
    /\ threads' = [threads EXCEPT
                     ![t].pc = "held",
                     ![t].envs = [j \in 1..Len(threads[t].keys) |->
                                     <<threads[t].keys[j], env[threads[t].keys[j]]>>]]
    /\ UNCHANGED <<env, mutex>>
    /\ TestEnvsFrame

\* the test sets one of the variables it recorded
SetVar(t, key) ==
    /\ threads[t].pc = "held"
    /\ threads[t].sets < MaxSets
    /\ \E j \in 1..Len(threads[t].keys) : threads[t].keys[j] = key
    /\ env' = [env EXCEPT ![key] = Some(t)]
    /\ threads' = [threads EXCEPT ![t].sets = @ + 1]
    /\ UNCHANGED mutex
    /\ TestEnvsFrame

\* the test removes one of the variables it recorded
RemoveVar(t, key) ==
    /\ threads[t].pc = "held"
    /\ threads[t].sets < MaxSets
    /\ \E j \in 1..Len(threads[t].keys) : threads[t].keys[j] = key
    /\ env' = [env EXCEPT ![key] = None]
    /\ threads' = [threads EXCEPT ![t].sets = @ + 1]
    /\ UNCHANGED mutex
    /\ TestEnvsFrame

TestEnvsDrop_GuardFirst(t) ==
    /\ threads[t].pc = "held"
    /\ threads' = [threads EXCEPT ![t].pc = "dropping", ![t].i = 1]
    /\ mutex' = None
    /\ UNCHANGED env
    /\ TestEnvsFrame

\* drop(_env): Drop::drop starts; the fields, _guard among them, are
\* dropped only after its body
TestEnvsDrop(t) ==
    /\ threads[t].pc = "held"
    /\ threads' = [threads EXCEPT ![t].pc = "dropping", ![t].i = 1]
    /\ UNCHANGED <<env, mutex>>
    /\ TestEnvsFrame

\* one turn of the loop of Drop::drop
RestoreKey(t) ==
    /\ threads[t].pc = "dropping"
    /\ threads[t].i <= Len(threads[t].envs)
    /\ env' = Restore(env, threads[t].envs[threads[t].i])
    /\ threads' = [threads EXCEPT ![t].i = @ + 1]
    /\ UNCHANGED mutex
    /\ TestEnvsFrame

\* the loop is over: the MutexGuard is dropped, the mutex released
TestEnvsUnlock(t) ==
    /\ threads[t].pc = "dropping"
    /\ threads[t].i > Len(threads[t].envs)
    /\ mutex' = None
    /\ threads' = [threads EXCEPT ![t].pc = "done"]
    /\ UNCHANGED env
    /\ TestEnvsFrame

TestEnvsNext ==
    \/ \E t \in Threads : TestEnvsLock(t)
    \/ \E t \in Threads : TestEnvsSnapshot(t)
    \/ \E t \in Threads, key \in EnvKeys : SetVar(t, key)
    \/ \E t \in Threads, key \in EnvKeys : RemoveVar(t, key)
    \/ \E t \in Threads : TestEnvsDrop(t)
    \/ \E t \in Threads : RestoreKey(t)
    \/ \E t \in Threads : TestEnvsUnlock(t)

SpecTestEnvs == TestEnvsInit /\ [][TestEnvsNext]_vars

\* the threads that own a TestEnvs (or are building or dropping one)
Guards == {t \in Threads : threads[t].pc \in {"locked", "held", "dropping"}}

\* no recorded value is one a test has set
SnapshotsOriginal ==
    \A t \in Threads : \A j \in 1..Len(threads[t].envs) :
        threads[t].envs[j][2] \in {None, Some(Original)}

\* C30: under any interleaving at most one TestEnvs guard exists at a
\* time; when the mutex is released every recorded key has the value it
\* had when the guard was created (or is unset as it was then); and no
\* guard snapshots a value set by an earlier holder.
C30_ExclusiveAndRestored ==
    [][/\ Cardinality(Guards') <= 1
       /\ \A t \in Threads : (t \in Guards') <=> (mutex' = Some(t))
       /\ (mutex /= None /\ mutex' = None) =>
              \A j \in 1..Len(threads[mutex[1]].envs) :
                  env'[threads[mutex[1]].envs[j][1]] = threads[mutex[1]].envs[j][2]
       /\ SnapshotsOriginal']_vars

\* the second guard was created after the first holder had set a variable
\* both of them record, and has recorded the original value
C30_Witness ==
    \E t \in Threads, u \in Threads :
        /\ t /= u
        /\ threads[t].pc = "done" /\ threads[t].sets > 0
        /\ threads[u].pc = "held"
        /\ \E j \in 1..Len(threads[u].envs) :
              /\ threads[u].envs[j] = <<"API_KEY", Some(Original)>>

=============================================================================
